---- MODULE Spec2Model ----
(***************************************************************************)
(* Verification model of the hybrid OCR repository: the region reconciler  *)
(* (hybrid_processor.py), the rule store (pattern_manager.py), the user    *)
(* correction feedback loop (user_verification.py) and the per-processor   *)
(* document pass (hybrid_processor.py, process_document).                  *)
(*                                                                         *)
(* Strings are sequences of one-character strings, so that substring       *)
(* search, replacement, stripping and splitting are computed as Python     *)
(* computes them.  Confidences and boosts are integers in hundredths; a    *)
(* mean is kept exactly as the pair (sum, count).                          *)
(***************************************************************************)
EXTENDS Integers, Sequences, FiniteSets, TLC

VARIABLES
    \* --- region reconciler (one page) ---
    ocr_results,        \* engine name -> sequence of detections (hybrid_processor.py:330)
    clusters,           \* the `overlapping` index sets, one per seed, in seed order
    merged_regions,     \* sequence of TextRegion
    merge_pc,           \* "ocr" (engines ran) | "merged"
    \* --- rule store ---
    csv_rows,           \* rows of OCR_Patterns_Template.csv, in file order (<<>>: no file)
    ocr_patterns,       \* PatternManager.ocr_patterns
    aoc,                \* the last apply_ocr_corrections call and what it returned
    pp,                 \* the last _post_process_text_with_patterns call and its result
    last_op,            \* the last rule-store operation and its arguments
    n_appends,          \* number of append operations performed so far
    \* --- a reader thread and a reloading thread on one PatternManager ---
    r_pc,               \* reader: "idle" | "iter" | "done"
    r_idx,              \* reader: index of the list iterator
    r_seen,             \* reader: the rules its loop has visited
    l_pc,               \* reloader: "idle" | "updated" | "loading" | "done"
    l_idx,              \* reloader: next row of the file to load
    old_patterns,       \* the collection as it was when the reload began
    \* --- one HybridProcessor ---
    detected_document_type,     \* self.detected_document_type
    document_type_candidate,    \* self.document_type_candidate ("None": None)
    detected_sections,          \* self.detected_sections
    doc,                        \* the document of the last process_document call
    result,                     \* the ProcessingResult it returned
    \* --- one call of get_regions_for_verification ---
    v_regions,                  \* its regions argument
    v_image,                    \* its image argument
    verification_regions,       \* the scores it computed and the list it returned
    \* --- one call of detect_sections ---
    pages_content,              \* its argument: the text of each page
    merged_sections,            \* the list it returned
    sec_pc,                     \* "idle" | "pages" (argument chosen) | "detected"
    \* --- two threads in process_user_correction on one pattern file ---
    w_corr,                     \* thread -> the correction it processes
    w_pc,                       \* thread -> "start" | "read" | "written" | "cleared" | "done"
    w_df,                       \* thread -> its DataFrame (rows read, patterns added)
    \* --- the task table of the API server ---
    processing_tasks,           \* task records; the task id is the index
    api_response                \* the last response of GET /results/{task_id}

mergeVars == <<ocr_results, clusters, merged_regions, merge_pc>>

storeVars == <<csv_rows, ocr_patterns, aoc, pp, last_op, n_appends>>

reloadVars == <<r_pc, r_idx, r_seen, l_pc, l_idx, old_patterns>>

procVars == <<detected_document_type, document_type_candidate, detected_sections,
              doc, result>>

verifyVars == <<v_regions, v_image, verification_regions>>

sectionVars == <<pages_content, merged_sections, sec_pc>>

raceVars == <<w_corr, w_pc, w_df>>

apiVars == <<processing_tasks, api_response>>

vars == <<ocr_results, clusters, merged_regions, merge_pc,
          csv_rows, ocr_patterns, aoc, pp, last_op, n_appends,
          r_pc, r_idx, r_seen, l_pc, l_idx, old_patterns,
          detected_document_type, document_type_candidate, detected_sections,
          doc, result,
          v_regions, v_image, verification_regions,
          pages_content, merged_sections, sec_pc,
          w_corr, w_pc, w_df,
          processing_tasks, api_response>>

-----------------------------------------------------------------------------
(* Generic helpers                                                         *)

Abs(n) == IF n < 0 THEN 0 - n ELSE n

Min2(a, b) == IF a <= b THEN a ELSE b

Max2(a, b) == IF a >= b THEN a ELSE b

SetMin(S) == CHOOSE x \in S : \A y \in S : x <= y

SetMax(S) == CHOOSE x \in S : \A y \in S : x >= y

RECURSIVE SumOver(_, _)
SumOver(f, S) ==
    IF S = {} THEN 0
    ELSE LET x == CHOOSE y \in S : TRUE IN f[x] + SumOver(f, S \ {x})

\* Sequences over S of length at most n.
SeqsUpTo(S, n) == UNION {[1..k -> S] : k \in 0..n}

-----------------------------------------------------------------------------
(* Python strings, as sequences of characters                              *)

IsSpace(c) == c \in {" ", "\n", "\t"}

IsDigit(c) == c \in {"0", "1", "2", "3", "4", "5", "6", "7", "8", "9"}

LowerLetters ==
    {"a", "b", "c", "d", "e", "f", "g", "h", "i", "j", "k", "l", "m",
     "n", "o", "p", "q", "r", "s", "t", "u", "v", "w", "x", "y", "z"}

\* The upper-case letters that occur in the inputs, with str.lower().
ToLower(c) == IF c = "O" THEN "o" ELSE IF c = "M" THEN "m" ELSE c

IsAlpha(c) == ToLower(c) \in LowerLetters

LowerStr(s) == [k \in 1..Len(s) |-> ToLower(s[k])]

\* w occurs in t at position i.
OccursAt(t, w, i) ==
    /\ i + Len(w) - 1 <= Len(t)
    /\ \A k \in 1..Len(w) : t[i + k - 1] = w[k]

\* `w in t`
Contains(t, w) == \E i \in 1..(Len(t) - Len(w) + 1) : OccursAt(t, w, i)

\* t.replace(w, c) from position i on, for non-empty w: leftmost
\* non-overlapping occurrences.
RECURSIVE ReplaceFrom(_, _, _, _)
ReplaceFrom(t, w, c, i) ==
    IF i > Len(t) THEN <<>>
    ELSE IF OccursAt(t, w, i) THEN c \o ReplaceFrom(t, w, c, i + Len(w))
    ELSE <<t[i]>> \o ReplaceFrom(t, w, c, i + 1)

Replace(t, w, c) == ReplaceFrom(t, w, c, 1)

RECURSIVE LStrip(_)
LStrip(s) == IF s # <<>> /\ IsSpace(Head(s)) THEN LStrip(Tail(s)) ELSE s

RECURSIVE RStrip(_)
RStrip(s) ==
    IF s # <<>> /\ IsSpace(s[Len(s)]) THEN RStrip(SubSeq(s, 1, Len(s) - 1)) ELSE s

\* s.strip()
Strip(s) == RStrip(LStrip(s))

\* s.split(): the whitespace-separated words.
RECURSIVE SplitWords(_)
SplitWords(s) ==
    LET t == LStrip(s)
    IN  IF t = <<>> THEN <<>>
        ELSE LET n == SetMin({k \in 1..(Len(t) + 1) : k = Len(t) + 1 \/ IsSpace(t[k])})
             IN  <<SubSeq(t, 1, n - 1)>> \o SplitWords(SubSeq(t, n, Len(t)))

\* s.split("\n")
RECURSIVE SplitLines(_)
SplitLines(s) ==
    IF \A k \in 1..Len(s) : s[k] # "\n" THEN <<s>>
    ELSE LET n == SetMin({k \in 1..Len(s) : s[k] = "\n"})
         IN  <<SubSeq(s, 1, n - 1)>> \o SplitLines(SubSeq(s, n + 1, Len(s)))

\* "\n".join(lines)
RECURSIVE JoinLines(_)
JoinLines(lines) ==
    IF lines = <<>> THEN <<>>
    ELSE IF Len(lines) = 1 THEN lines[1]
    ELSE lines[1] \o <<"\n">> \o JoinLines(Tail(lines))

\* s.isdigit(): non-empty and all digits.
IsDigitStr(s) == s # <<>> /\ \A k \in 1..Len(s) : IsDigit(s[k])

RECURSIVE RemoveChar(_, _)
RemoveChar(s, c) ==
    IF s = <<>> THEN <<>>
    ELSE IF Head(s) = c THEN RemoveChar(Tail(s), c)
    ELSE <<Head(s)>> \o RemoveChar(Tail(s), c)

-----------------------------------------------------------------------------
(* Region reconciler: hybrid_processor.py                                  *)

\* Engine iteration order of the ocr_results dict.
Engines == <<"easyocr", "tesseract">>

\* horizontal_gap as the code computes it (box1 is the seed's box).
CodeHorizontalGap(box1, box2) ==
    IF box2[1] > box1[3] THEN Abs(box2[1] - box1[3]) ELSE Abs(box1[1] - box2[3])

GapThreshold == 50

\* IoU >= 0.3, in exact arithmetic; union_area = 0 gives iou = 0.
IouAtLeastThreshold(box1, box2) ==
    LET x_left   == Max2(box1[1], box2[1])
        y_top    == Max2(box1[2], box2[2])
        x_right  == Min2(box1[3], box2[3])
        y_bottom == Min2(box1[4], box2[4])
        inter    == (x_right - x_left) * (y_bottom - y_top)
        area1    == (box1[3] - box1[1]) * (box1[4] - box1[2])
        area2    == (box2[3] - box2[1]) * (box2[4] - box2[2])
        union    == area1 + area2 - inter
    IN  IF x_right < x_left \/ y_bottom < y_top THEN FALSE
        ELSE IF union > 0 THEN 10 * inter >= 3 * union
        ELSE FALSE

\* The same test without the horizontal-gap early return.
BoxesOverlapNoGapCheck(box1, box2) == IouAtLeastThreshold(box1, box2)

BoxesOverlap(box1, box2) ==
    IF CodeHorizontalGap(box1, box2) > GapThreshold THEN FALSE
    ELSE IouAtLeastThreshold(box1, box2)

\* all_detections: the per-engine lists concatenated in engine order.
Flatten(results) == results[Engines[1]] \o results[Engines[2]]

\* The same loop collecting, besides the detections that overlap the seed,
\* those that overlap a detection collected for the seed.
RECURSIVE ClustersChained(_, _, _)
ClustersChained(dets, i, used) ==
    IF i > Len(dets) THEN <<>>
    ELSE IF i \in used THEN ClustersChained(dets, i + 1, used)
    ELSE LET direct == {i} \cup
                 {j \in (i + 1)..Len(dets) :
                     j \notin used /\ BoxesOverlap(dets[i].bbox, dets[j].bbox)}
             members == direct \cup
                 {j \in (i + 1)..Len(dets) :
                     /\ j \notin used
                     /\ \E m \in direct : BoxesOverlap(dets[m].bbox, dets[j].bbox)}
         IN  <<members>> \o ClustersChained(dets, i + 1, used \cup members)

\* The outer loop of _smart_merge_ocr_results from index i on, with the
\* used_indices set: each unused detection seeds a cluster and collects the
\* later unused detections whose box overlaps the seed's box.
RECURSIVE ClustersFrom(_, _, _)
ClustersFrom(dets, i, used) ==
    IF i > Len(dets) THEN <<>>
    ELSE IF i \in used THEN ClustersFrom(dets, i + 1, used)
    ELSE LET members == {i} \cup
                 {j \in (i + 1)..Len(dets) :
                     j \notin used /\ BoxesOverlap(dets[i].bbox, dets[j].bbox)}
         IN  <<members>> \o ClustersFrom(dets, i + 1, used \cup members)

\* Members of a cluster in list order (the order of `overlapping`).
RECURSIVE InOrder(_)
InOrder(S) ==
    IF S = {} THEN <<>>
    ELSE LET m == SetMin(S) IN <<m>> \o InOrder(S \ {m})

\* The member of highest confidence, whatever the length of its text.
MostConfidentDetection(dets, members) ==
    LET best == SetMin({k \in members :
                           \A l \in members : dets[k].confidence >= dets[l].confidence})
    IN  dets[best]

\* max(detections, key = confidence * len(text)): the first maximal member.
BestDetection(dets, members) ==
    LET key(k) == dets[k].confidence * Len(dets[k].text)
        best == SetMin({k \in members : \A l \in members : key(k) >= key(l)})
    IN  dets[best]

\* The backquote character is written "BQ" (a string literal cannot hold it).
HasArtifactChar(text) == \E k \in 1..Len(text) : text[k] \in {"BQ", "~", "|"}

\* _detect_region_type; the confidence is conf_sum / conf_n (hundredths).
DetectRegionType(text, conf_sum, conf_n) ==
    IF conf_sum < 50 * conf_n THEN "handwritten"
    ELSE LET indicators ==
                 (IF Len(text) < 15 THEN 1 ELSE 0)
               + (IF HasArtifactChar(text) THEN 1 ELSE 0)
               + (IF conf_sum < 60 * conf_n /\ Len(text) > 5 THEN 1 ELSE 0)
         IN  IF indicators >= 2 THEN "handwritten" ELSE "printed"

\* The sum and the number of the members' confidences.
ConfidenceSum(dets, members) == SumOver([k \in members |-> dets[k].confidence], members)

\* The merge with the confidence of the seed alone.
MergeWithSeedConfidence(dets, members) ==
    LET best == BestDetection(dets, members)
        seed == dets[SetMin(members)]
    IN  [text        |-> best.text,
         bbox        |-> <<SetMin({dets[k].bbox[1] : k \in members}),
                           SetMin({dets[k].bbox[2] : k \in members}),
                           SetMax({dets[k].bbox[3] : k \in members}),
                           SetMax({dets[k].bbox[4] : k \in members})>>,
         conf_sum    |-> seed.confidence,
         conf_n      |-> 1,
         region_type |-> DetectRegionType(best.text, seed.confidence, 1)]

\* The merge with the box of the chosen detection alone.
MergeWithBestBox(dets, members) ==
    LET best     == BestDetection(dets, members)
        conf_sum == ConfidenceSum(dets, members)
        conf_n   == Cardinality(members)
    IN  [text        |-> best.text,
         bbox        |-> best.bbox,
         conf_sum    |-> conf_sum,
         conf_n      |-> conf_n,
         region_type |-> DetectRegionType(best.text, conf_sum, conf_n)]

\* _merge_overlapping_detections for a non-empty cluster.
MergeOverlappingDetections(dets, members) ==
    LET best     == BestDetection(dets, members)
        conf_sum == SumOver([k \in members |-> dets[k].confidence], members)
        conf_n   == Cardinality(members)
    IN  [text        |-> best.text,
         bbox        |-> <<SetMin({dets[k].bbox[1] : k \in members}),
                           SetMin({dets[k].bbox[2] : k \in members}),
                           SetMax({dets[k].bbox[3] : k \in members}),
                           SetMax({dets[k].bbox[4] : k \in members})>>,
         conf_sum    |-> conf_sum,
         conf_n      |-> conf_n,
         region_type |-> DetectRegionType(best.text, conf_sum, conf_n)]

SmartMergeClusters(results) == ClustersFrom(Flatten(results), 1, {})

\* The rule store left untouched: no pattern file, nothing loaded.
NoCall == [called |-> FALSE]

StoreIdle ==
    /\ csv_rows = <<>>
    /\ ocr_patterns = <<>>
    /\ aoc = NoCall
    /\ pp = NoCall
    /\ last_op = [op |-> "init"]
    /\ n_appends = 0

\* No reader and no reloader thread.
ReloadIdle ==
    /\ r_pc = "idle"
    /\ r_idx = 0
    /\ r_seen = <<>>
    /\ l_pc = "idle"
    /\ l_idx = 0
    /\ old_patterns = <<>>

\* HybridProcessor.__init__, before any document.
ProcessorFresh ==
    /\ detected_document_type = "General"
    /\ document_type_candidate = "None"
    /\ detected_sections = <<>>
    /\ doc = NoCall
    /\ result = NoCall

\* No image: the image argument is None.
NoImage == [present |-> FALSE, h |-> 0, w |-> 0]

\* get_regions_for_verification not called.
VerifyIdle ==
    /\ v_regions = <<>>
    /\ v_image = NoImage
    /\ verification_regions = NoCall

\* detect_sections not called.
SectionsIdle ==
    /\ pages_content = <<>>
    /\ merged_sections = <<>>
    /\ sec_pc = "idle"

\* No thread in process_user_correction.
RaceIdle ==
    /\ w_corr = <<>>
    /\ w_pc = <<>>
    /\ w_df = <<>>

\* The API server without a task and without a request.
ApiIdle ==
    /\ processing_tasks = <<>>
    /\ api_response = NoCall


\* Inputs of the reconciler model.
XS == {0, 40, 91, 131}

YS == {0, 10}

\* Boxes x1 <= x2, y1 <= y2 on the grid, zero-width and zero-height ones included.
MergeBoxes ==
    {b \in (XS \X YS \X XS \X YS) : b[1] <= b[3] /\ b[2] <= b[4] /\ b[2] = 0}

MaxDetections == 3

DetectionsOf(engine) ==
    {[text |-> <<"a", "b">>, bbox |-> b, confidence |-> 60, engine |-> engine] :
        b \in MergeBoxes}

InitMerge ==
    /\ \E n1 \in 0..MaxDetections :
         \E n2 \in 0..(MaxDetections - n1) :
           ocr_results \in
             [easyocr : [1..n1 -> DetectionsOf("easyocr")],
              tesseract : [1..n2 -> DetectionsOf("tesseract")]]
    /\ clusters = <<>>
    /\ merged_regions = <<>>
    /\ merge_pc = "ocr"
    /\ StoreIdle
    /\ ReloadIdle
    /\ ProcessorFresh
    /\ VerifyIdle
    /\ SectionsIdle
    /\ RaceIdle
    /\ ApiIdle

\* _smart_merge_ocr_results(ocr_results, image.shape)
SmartMergeOcrResults ==
    /\ merge_pc = "ocr"
    /\ LET dets == Flatten(ocr_results)
           cl   == SmartMergeClusters(ocr_results)
       IN  /\ clusters' = cl
           /\ merged_regions' =
                [k \in 1..Len(cl) |-> MergeOverlappingDetections(dets, cl[k])]
    /\ merge_pc' = "merged"
    /\ UNCHANGED ocr_results
    /\ UNCHANGED <<storeVars, reloadVars, procVars, verifyVars, sectionVars, raceVars, apiVars>>

NextMerge == SmartMergeOcrResults

SpecMerge == InitMerge /\ [][NextMerge]_vars

\* Detections for the contents of a merged region: two overlapping boxes and
\* one far from them, texts of two lengths, two confidences (0.6 with a
\* one-character text ties with 0.2 with a three-character text).
RegionBoxes == {<<0, 0, 40, 10>>, <<10, 0, 40, 20>>, <<91, 0, 131, 10>>}

RegionTexts == {<<"a">>, <<"x", "y", "z">>}

RegionConfidences == {20, 60}

\* A box that overlaps the second box of RegionBoxes and not the first.
RegionChainBox == <<10, 10, 40, 20>>

RegionDetectionsOf(engine) ==
    {[text |-> t, bbox |-> b, confidence |-> c, engine |-> engine] :
        t \in RegionTexts, b \in RegionBoxes, c \in RegionConfidences}
    \cup {[text |-> <<"a">>, bbox |-> RegionChainBox, confidence |-> 60,
           engine |-> engine]}

InitRegion ==
    /\ \E n1 \in 0..MaxDetections :
         \E n2 \in 0..(MaxDetections - n1) :
           ocr_results \in
             [easyocr : [1..n1 -> RegionDetectionsOf("easyocr")],
              tesseract : [1..n2 -> RegionDetectionsOf("tesseract")]]
    /\ clusters = <<>>
    /\ merged_regions = <<>>
    /\ merge_pc = "ocr"
    /\ StoreIdle
    /\ ReloadIdle
    /\ ProcessorFresh
    /\ VerifyIdle
    /\ SectionsIdle
    /\ RaceIdle
    /\ ApiIdle

SpecRegion == InitRegion /\ [][NextMerge]_vars

-----------------------------------------------------------------------------
(* Claims about the region reconciler (checked under SpecMerge)            *)

AllDetections == Flatten(ocr_results)

SameCluster(i, j) == \E k \in 1..Len(clusters) : i \in clusters[k] /\ j \in clusters[k]

PositiveArea(b) == b[1] < b[3] /\ b[2] < b[4]

\* C1: detections that come from pairwise different engines and all carry the
\* same bounding box (any width and height; stated here for boxes of positive
\* area) are merged into exactly one region that contains all of them.
C1_IdenticalBoxesOneRegion ==
    (/\ merge_pc = "merged"
     /\ Len(AllDetections) >= 1
     /\ PositiveArea(AllDetections[1].bbox)
     /\ \A i, j \in 1..Len(AllDetections) :
            /\ AllDetections[i].bbox = AllDetections[j].bbox
            /\ (i # j => AllDetections[i].engine # AllDetections[j].engine))
    => (/\ Len(merged_regions) = 1
        /\ clusters[1] = 1..Len(AllDetections))

\* The boxes share no point.
BoxesDisjoint(b1, b2) ==
    \/ Min2(b1[3], b2[3]) < Max2(b1[1], b2[1])
    \/ Min2(b1[4], b2[4]) < Max2(b1[2], b2[2])

\* Horizontal distance between two side-by-side boxes (0 when their x ranges meet).
HorizontalGap(b1, b2) ==
    Max2(0, Max2(b1[1], b2[1]) - Min2(b1[3], b2[3]))

FarApart(i, j) ==
    /\ i # j
    /\ BoxesDisjoint(AllDetections[i].bbox, AllDetections[j].bbox)
    /\ HorizontalGap(AllDetections[i].bbox, AllDetections[j].bbox) > GapThreshold

\* C2: two detections whose boxes do not intersect and whose horizontal gap
\* exceeds 50 pixels are never members of the same merged region, also when
\* both overlap a common third detection.
C2_FarApartNeverMerged ==
    merge_pc = "merged" =>
        \A i, j \in 1..Len(AllDetections) : FarApart(i, j) => ~SameCluster(i, j)

\* Two far-apart detections both reach IoU 0.3 with the seed of a cluster,
\* which has merged one of them.
C2_Witness ==
    /\ merge_pc = "merged"
    /\ \E i, j, s \in 1..Len(AllDetections) :
          /\ FarApart(i, j)
          /\ IouAtLeastThreshold(AllDetections[s].bbox, AllDetections[i].bbox)
          /\ IouAtLeastThreshold(AllDetections[s].bbox, AllDetections[j].bbox)
          /\ s < i /\ s < j
          /\ SameCluster(s, i)

\* The seed of a cluster and the seeds of all clusters.
SeedOf(k) == SetMin(clusters[k])

Seeds == {SeedOf(k) : k \in 1..Len(clusters)}

\* C25: the clusters partition the flattened detection list and each yields
\* one merged region; a detection that is not the lowest index of its
\* cluster is there because _boxes_overlap holds between the box of that
\* lowest index (the seed) and its own box, and holds for no earlier seed;
\* overlap with a detection that is not a seed puts nothing into a cluster.
C25_ClustersPartitionBySeed ==
    merge_pc = "merged" =>
        /\ Len(merged_regions) = Len(clusters)
        /\ \A i \in 1..Len(AllDetections) :
               \E k \in 1..Len(clusters) :
                   /\ i \in clusters[k]
                   /\ \A l \in 1..Len(clusters) : i \in clusters[l] => l = k
        /\ \A k \in 1..Len(clusters) :
               /\ clusters[k] # {}
               /\ clusters[k] \subseteq 1..Len(AllDetections)
               /\ \A j \in clusters[k] \ {SeedOf(k)} :
                      /\ BoxesOverlap(AllDetections[SeedOf(k)].bbox, AllDetections[j].bbox)
                      /\ \A t \in Seeds :
                             t < SeedOf(k) =>
                                 ~BoxesOverlap(AllDetections[t].bbox, AllDetections[j].bbox)
        /\ \A t \in Seeds : \A j \in Seeds :
               t < j => ~BoxesOverlap(AllDetections[t].bbox, AllDetections[j].bbox)

\* A detection that overlaps a member of a cluster, in both argument
\* orders, and is not in that cluster because it does not overlap the seed.
C25_Witness ==
    /\ merge_pc = "merged"
    /\ \E s, m, j \in 1..Len(AllDetections) :
          /\ s < m /\ m < j
          /\ SameCluster(s, m)
          /\ s \in Seeds
          /\ BoxesOverlap(AllDetections[m].bbox, AllDetections[j].bbox)
          /\ BoxesOverlap(AllDetections[j].bbox, AllDetections[m].bbox)
          /\ ~BoxesOverlap(AllDetections[s].bbox, AllDetections[j].bbox)
          /\ ~SameCluster(m, j)

-----------------------------------------------------------------------------
(* Rule store: pattern_manager.py, and the feedback loop of                *)
(* user_verification.py                                                    *)

\* The sentinel correct_text that deletes the wrong text.
EMPTY == <<"E", "M", "P", "T", "Y">>

\* str(NaN): what str(row["Wrong_Text"]) yields for a missing cell.
NanStr == <<"n", "a", "n">>

\* A row of the pattern file.  `bad` names the required cell that is missing
\* in the file ("none" for a well-formed row): a missing Pattern_ID reads as
\* NaN and int(NaN) raises ValueError; a missing Wrong_Text reads as NaN and
\* str(NaN) is "nan".
Row(id, wrong, correct, ctx, prio, boost, enabled, bad) ==
    [Pattern_ID |-> id, Wrong_Text |-> wrong, Correct_Text |-> correct,
     Context_Type |-> ctx, Priority |-> prio, Confidence_Boost |-> boost,
     Enabled |-> enabled, bad |-> bad]

\* OCRPattern(...) built from a row whose Pattern_ID parses.
PatternOfRow(row) ==
    [pattern_id       |-> row.Pattern_ID,
     wrong_text       |-> IF row.bad = "Wrong_Text" THEN NanStr ELSE row.Wrong_Text,
     correct_text     |-> row.Correct_Text,
     context_type     |-> row.Context_Type,
     priority         |-> row.Priority,
     confidence_boost |-> row.Confidence_Boost,
     enabled          |-> row.Enabled]

\* int(row["Pattern_ID"]) raises.
RowRaises(row) == row.bad = "Pattern_ID"

\* list.sort(key = priority): stable.
RECURSIVE SortByPriority(_)
SortByPriority(ps) ==
    IF ps = <<>> THEN <<>>
    ELSE LET lowest == SetMin({ps[k].priority : k \in 1..Len(ps)})
             first  == SetMin({k \in 1..Len(ps) : ps[k].priority = lowest})
         IN  <<ps[first]>> \o
             SortByPriority(SubSeq(ps, 1, first - 1) \o SubSeq(ps, first + 1, Len(ps)))

\* The loop of _load_ocr_patterns over the rows from index k on, appending to
\* the list `acc`: disabled rows are passed over; a row that raises ends the
\* loop (the except clause around the whole loop), leaving what was appended
\* so far, unsorted; at the end of the rows the list is sorted.
RECURSIVE LoadRowsFrom(_, _, _)
LoadRowsFrom(rows, k, acc) ==
    IF k > Len(rows) THEN SortByPriority(acc)
    ELSE IF ~rows[k].Enabled THEN LoadRowsFrom(rows, k + 1, acc)
    ELSE IF RowRaises(rows[k]) THEN acc
    ELSE LoadRowsFrom(rows, k + 1, Append(acc, PatternOfRow(rows[k])))

\* _load_ocr_patterns into the list `into` (no file: the list is left as it is).
LoadOcrPatterns(rows, into) ==
    IF rows = <<>> THEN into ELSE LoadRowsFrom(rows, 1, into)

\* The context test left out: every enabled rule is tried.
ContextMatchesAlways(pattern_ctx, context) == TRUE

\* The context test of apply_ocr_corrections: the rule is passed over when
\* both its context type and the argument differ from "any" and from each other.
ContextMatches(pattern_ctx, context) ==
    ~(pattern_ctx # "any" /\ context # "any" /\ pattern_ctx # context)

\* The loop of apply_ocr_corrections from rule k on; acc carries
\* corrected_text, total_boost, corrections_applied and (for the claims) the
\* indices of the rules that replaced text.
RECURSIVE ApplyFrom(_, _, _, _)
ApplyFrom(patterns, k, context, acc) ==
    IF k > Len(patterns) THEN acc
    ELSE LET p == patterns[k]
         IN  IF ~p.enabled THEN ApplyFrom(patterns, k + 1, context, acc)
             ELSE IF ~ContextMatches(p.context_type, context)
                  THEN ApplyFrom(patterns, k + 1, context, acc)
             ELSE IF Contains(acc.text, p.wrong_text)
                  THEN ApplyFrom(patterns, k + 1, context,
                         [text    |-> Replace(acc.text, p.wrong_text,
                                        IF p.correct_text = EMPTY THEN <<>>
                                        ELSE p.correct_text),
                          total_boost |-> acc.total_boost + p.confidence_boost,
                          corrections_applied |-> acc.corrections_applied + 1,
                          applied |-> Append(acc.applied, k)])
             ELSE ApplyFrom(patterns, k + 1, context, acc)

\* The corrections run as if the caller had passed no context.
ApplyWithoutContext(patterns, text, context) ==
    LET start == [text |-> text, total_boost |-> 0, corrections_applied |-> 0,
                  applied |-> <<>>]
    IN  IF text = <<>> THEN start ELSE ApplyFrom(patterns, 1, "any", start)

\* apply_ocr_corrections(text, context); the returned boost is
\* min(total_boost / corrections_applied, 0.5), 0 when nothing was applied.
ApplyOcrCorrections(patterns, text, context) ==
    LET start == [text |-> text, total_boost |-> 0, corrections_applied |-> 0,
                  applied |-> <<>>]
    IN  IF text = <<>> THEN start ELSE ApplyFrom(patterns, 1, context, start)

\* The ceiling of the returned boost, in hundredths.
BoostCap == 50

\* The mean without the ceiling.
AverageBoostNoCap(total_boost, corrections_applied) ==
    IF corrections_applied = 0 THEN <<0, 1>> ELSE <<total_boost, corrections_applied>>

\* The boost apply_ocr_corrections returns, min(avg_boost, 0.5), as the
\* fraction <<numerator, denominator>> of hundredths.
AverageBoost(total_boost, corrections_applied) ==
    IF corrections_applied = 0 THEN <<0, 1>>
    ELSE IF total_boost > BoostCap * corrections_applied THEN <<BoostCap, 1>>
    ELSE <<total_boost, corrections_applied>>

\* apply_context_rules returns the text as it received it: the replace and
\* validate_format actions are `pass`, boost_confidence only adds to the boost.
ApplyContextRulesText(text) == text

\* The cleanup of _post_process_text_with_patterns: strip every line, drop
\* the empty ones, rejoin.
CleanLines(text) ==
    LET lines    == SplitLines(text)
        stripped == [k \in 1..Len(lines) |-> Strip(lines[k])]
    IN  JoinLines(SelectSeq(stripped, LAMBDA l : l # <<>>))

\* The context passed by _post_process_text_with_patterns.
PipelineContext == "global"

\* The passes in another order: cleanup first, corrections afterwards.
PostProcessCleanFirst(patterns, text) ==
    IF text = <<>> THEN text
    ELSE ApplyOcrCorrections(patterns, ApplyContextRulesText(CleanLines(text)),
                             PipelineContext).text

\* _post_process_text_with_patterns(text)
PostProcessText(patterns, text) ==
    IF text = <<>> THEN text
    ELSE CleanLines(ApplyContextRulesText(
             ApplyOcrCorrections(patterns, text, PipelineContext).text))

Months6 ==
    {<<"j", "a", "n", "u", "a", "r", "i">>, <<"f", "e", "b", "r", "u", "a", "r", "i">>,
     <<"m", "a", "r", "e", "t">>, <<"a", "p", "r", "i", "l">>,
     <<"m", "e", "i">>, <<"j", "u", "n", "i">>}

\* _detect_context_type, from the corrected text as submitted.
DetectContextType(corrected_text) ==
    LET text == LowerStr(corrected_text)
    IN  IF \E m \in Months6 : Contains(text, m) THEN "date"
        ELSE IF IsDigitStr(RemoveChar(RemoveChar(corrected_text, "."), "/"))
             THEN "number"
        ELSE IF (\E k \in 1..Len(text) : IsDigit(text[k]))
                /\ (\E k \in 1..Len(text) : IsAlpha(text[k]))
             THEN "document_number"
        ELSE "any"

\* The pattern dicts of _generate_patterns_from_correction (the fields the
\* loader reads).
NewPattern(wrong, correct, ctx, prio, boost) ==
    [Wrong_Text |-> wrong, Correct_Text |-> correct, Context_Type |-> ctx,
     Priority |-> prio, Confidence_Boost |-> boost]

\* A word-level pattern for every aligned pair, changed or not.
WordPatternsEveryPair(original_words, corrected_words) ==
    [n \in 1..Len(original_words) |->
        NewPattern(original_words[n], corrected_words[n], "any", 2, 15)]

\* The word-level loop of _generate_patterns_from_correction: a pattern for
\* each aligned pair whose words differ and whose original word has more
\* than one character.
WordPatterns(original_words, corrected_words) ==
    LET idx == SelectSeq([k \in 1..Len(original_words) |-> k],
                   LAMBDA k : original_words[k] # corrected_words[k]
                              /\ Len(original_words[k]) > 1)
    IN  [n \in 1..Len(idx) |->
            NewPattern(original_words[idx[n]], corrected_words[idx[n]], "any", 2, 15)]

\* _generate_patterns_from_correction
GeneratePatternsFromCorrection(original_text, corrected_text) ==
    LET original  == Strip(original_text)
        corrected == Strip(corrected_text)
        ow        == SplitWords(original)
        cw        == SplitWords(corrected)
    IN  IF original = <<>> \/ corrected = <<>> \/ original = corrected THEN <<>>
        ELSE <<NewPattern(original, corrected, DetectContextType(corrected_text), 1, 20)>>
             \o (IF Len(ow) = Len(cw) THEN WordPatterns(ow, cw) ELSE <<>>)

\* df["Pattern_ID"].max(): NaN cells are skipped.
MaxPatternId(rows) ==
    SetMax({rows[k].Pattern_ID : k \in {j \in 1..Len(rows) : rows[j].bad # "Pattern_ID"}})

IsDuplicateRow(rows, pattern) ==
    \E k \in 1..Len(rows) :
        /\ rows[k].bad # "Wrong_Text"
        /\ rows[k].Wrong_Text = pattern.Wrong_Text
        /\ rows[k].Correct_Text = pattern.Correct_Text

\* The loop of _update_pattern_csv: every pattern takes the next id, then a
\* duplicate of a row already in the frame is dropped.
RECURSIVE AddPatternsFrom(_, _, _, _)
AddPatternsFrom(rows, patterns, k, next_id) ==
    IF k > Len(patterns) THEN rows
    ELSE IF rows # <<>> /\ IsDuplicateRow(rows, patterns[k])
         THEN AddPatternsFrom(rows, patterns, k + 1, next_id + 1)
    ELSE AddPatternsFrom(
             Append(rows, Row(next_id, patterns[k].Wrong_Text, patterns[k].Correct_Text,
                              patterns[k].Context_Type, patterns[k].Priority,
                              patterns[k].Confidence_Boost, TRUE, "none")),
             patterns, k + 1, next_id + 1)

\* _update_pattern_csv(patterns): the rows of the file after the call.
UpdatePatternCsv(rows, patterns) ==
    AddPatternsFrom(rows, patterns, 1, IF rows = <<>> THEN 1 ELSE MaxPatternId(rows) + 1)

\* enabled_ocr_patterns of get_pattern_stats
EnabledCount(patterns) == Cardinality({k \in 1..Len(patterns) : patterns[k].enabled})

\* Inputs of the rule-store model: pattern files the store may start from.
RowDate == Row(1, <<"m", "c", "i">>, <<"m", "e", "i">>, "date", 2, 10, TRUE, "none")

RowTilde == Row(2, <<"~">>, EMPTY, "any", 1, 5, TRUE, "none")

RowDocNo == Row(3, <<"i", "o">>, <<"1", "0">>, "document_number", 3, 10, TRUE, "none")

TplMissing == <<>>

TplGood == <<RowDate, RowTilde, RowDocNo>>

TplDisabled == <<RowDate, [RowTilde EXCEPT !.Enabled = FALSE], RowDocNo>>

TplBadId == <<RowDate, [RowTilde EXCEPT !.bad = "Pattern_ID"], RowDocNo>>

TplBadText == <<RowDate, [RowTilde EXCEPT !.bad = "Wrong_Text"], RowDocNo>>

\* Two rows in descending priority order, then a row whose id is missing.
TplBadLast == <<RowDocNo, RowDate, [RowTilde EXCEPT !.bad = "Pattern_ID"]>>

\* One rule whose boost is above the ceiling.
TplStrong == <<[RowDate EXCEPT !.Confidence_Boost = 60]>>

Templates ==
    {TplMissing, TplGood, TplDisabled, TplBadId, TplBadText, TplBadLast, TplStrong}

\* User corrections (original_text, corrected_text).
Corrections ==
    {<<<<"m", "c", "i">>, <<"m", "e", "i">>>>,
     <<<<"9", "o">>, <<"9", "0">>>>,
     <<<<"i", "o", "8">>, <<"1", "O", "8">>>>,
     <<<<"a", "b">>, <<"c", "d">>>>,
     <<<<"m", "c", "i", " ", "9", "o">>, <<"m", "e", "i", " ", "9", "0">>>>,
     <<<<" ", "a", "b">>, <<"a", "b", " ">>>>,
     <<<<"a", " ", "9", "o">>, <<"a", " ", "9", "0">>>>,
     <<<<"9", " ", "o">>, <<"9", "0">>>>}

\* Arguments of add_pattern_from_verification (wrong_text, correct_text, context_type).
VerificationPatterns ==
    {<<<<"a", "b">>, <<"c", "d">>, "any">>,
     <<<<"9", "o">>, <<"9", "0">>, "number">>}

\* Assembled document texts.
Texts ==
    {<<>>,
     <<"5", " ", "m", "c", "i">>,
     <<"9", "o", "~">>,
     <<"m", "c", "i", "o">>,
     <<"i", "o", "8", "\n", "~", "\n", " ", "a", "b", " ">>}

Contexts == {"any", "global", "date", "number"}

MaxAppends == 2

MergeIdle ==
    /\ ocr_results = [easyocr |-> <<>>, tesseract |-> <<>>]
    /\ clusters = <<>>
    /\ merged_regions = <<>>
    /\ merge_pc = "idle"

\* PatternManager.__init__: the lists start empty and the file is loaded.
Init ==
    /\ csv_rows \in Templates
    /\ ocr_patterns = LoadOcrPatterns(csv_rows, <<>>)
    /\ aoc = NoCall
    /\ pp = NoCall
    /\ last_op = [op |-> "init"]
    /\ n_appends = 0
    /\ MergeIdle
    /\ ReloadIdle
    /\ ProcessorFresh
    /\ VerifyIdle
    /\ SectionsIdle
    /\ RaceIdle
    /\ ApiIdle

\* reload_patterns: clear the list, then _load_ocr_patterns.
ReloadPatterns ==
    /\ ocr_patterns' = LoadOcrPatterns(csv_rows, <<>>)
    /\ last_op' = [op |-> "reload"]
    /\ aoc' = NoCall
    /\ pp' = NoCall
    /\ UNCHANGED <<csv_rows, n_appends>>
    /\ UNCHANGED <<mergeVars, reloadVars, procVars, verifyVars, sectionVars, raceVars, apiVars>>

\* process_user_correction(correction): generate the patterns and, when
\* there are any, rewrite the file and reload the store.
ProcessUserCorrection(original_text, corrected_text) ==
    /\ n_appends < MaxAppends
    /\ LET patterns == GeneratePatternsFromCorrection(original_text, corrected_text)
           rows     == IF patterns # <<>> THEN UpdatePatternCsv(csv_rows, patterns)
                       ELSE csv_rows
       IN  /\ csv_rows' = rows
           /\ ocr_patterns' = IF patterns # <<>> THEN LoadOcrPatterns(rows, <<>>)
                              ELSE ocr_patterns
           /\ last_op' = [op |-> "correction", original |-> Strip(original_text),
                          corrected |-> Strip(corrected_text), patterns |-> patterns]
    /\ n_appends' = n_appends + 1
    /\ aoc' = NoCall
    /\ pp' = NoCall
    /\ UNCHANGED <<mergeVars, reloadVars, procVars, verifyVars, sectionVars, raceVars, apiVars>>

\* add_pattern_from_verification(wrong_text, correct_text, context_type = ...)
AddPatternFromVerification(wrong_text, correct_text, context_type) ==
    /\ n_appends < MaxAppends
    /\ LET new_pattern ==
               [pattern_id |-> Len(ocr_patterns) + 1, wrong_text |-> wrong_text,
                correct_text |-> correct_text, context_type |-> context_type,
                priority |-> 1, confidence_boost |-> 20, enabled |-> TRUE]
           duplicate ==
               \E k \in 1..Len(ocr_patterns) :
                   /\ ocr_patterns[k].wrong_text = wrong_text
                   /\ ocr_patterns[k].correct_text = correct_text
       IN  /\ ocr_patterns' = IF duplicate THEN ocr_patterns
                              ELSE SortByPriority(Append(ocr_patterns, new_pattern))
           /\ last_op' = [op |-> "add", wrong_text |-> wrong_text,
                          correct_text |-> correct_text, added |-> ~duplicate,
                          count_before |-> EnabledCount(ocr_patterns)]
    /\ n_appends' = n_appends + 1
    /\ aoc' = NoCall
    /\ pp' = NoCall
    /\ UNCHANGED csv_rows
    /\ UNCHANGED <<mergeVars, reloadVars, procVars, verifyVars, sectionVars, raceVars, apiVars>>

\* A call apply_ocr_corrections(text, context) on the store as it is; aoc
\* and pp record the most recent call, whichever of the two it was.
CallApplyOcrCorrections(text, context) ==
    /\ LET res == ApplyOcrCorrections(ocr_patterns, text, context)
       IN  aoc' = [called |-> TRUE, text |-> text, context |-> context,
                   result |-> res,
                   boost |-> AverageBoost(res.total_boost, res.corrections_applied)]
    /\ pp' = NoCall
    /\ UNCHANGED <<csv_rows, ocr_patterns, last_op, n_appends>>
    /\ UNCHANGED <<mergeVars, reloadVars, procVars, verifyVars, sectionVars, raceVars, apiVars>>

\* A call _post_process_text_with_patterns(text) on the store as it is.
CallPostProcessText(text) ==
    /\ pp' = [called |-> TRUE, text |-> text,
              final |-> PostProcessText(ocr_patterns, text)]
    /\ aoc' = NoCall
    /\ UNCHANGED <<csv_rows, ocr_patterns, last_op, n_appends>>
    /\ UNCHANGED <<mergeVars, reloadVars, procVars, verifyVars, sectionVars, raceVars, apiVars>>

Next ==
    \/ ReloadPatterns
    \/ \E c \in Corrections : ProcessUserCorrection(c[1], c[2])
    \/ \E v \in VerificationPatterns : AddPatternFromVerification(v[1], v[2], v[3])
    \/ \E t \in Texts : \E ctx \in Contexts : CallApplyOcrCorrections(t, ctx)
    \/ \E t \in Texts : CallPostProcessText(t)

Spec == Init /\ [][Next]_vars

\* C14: the confidence of every merged region is the arithmetic mean of the
\* confidences of exactly the detections of its cluster, and lies in [0, 1]
\* (0..100 hundredths) when every member confidence does.
C14_ConfidenceIsMeanOfMembers ==
    merge_pc = "merged" =>
        \A k \in 1..Len(merged_regions) :
            /\ merged_regions[k].conf_n = Cardinality(clusters[k])
            /\ merged_regions[k].conf_n > 0
            /\ merged_regions[k].conf_sum = ConfidenceSum(AllDetections, clusters[k])
            /\ (\A i \in clusters[k] : AllDetections[i].confidence \in 0..100)
                   => /\ 0 <= merged_regions[k].conf_sum
                      /\ merged_regions[k].conf_sum <= 100 * merged_regions[k].conf_n

\* A merged region of two or more detections whose confidences differ.
C14_Witness ==
    /\ merge_pc = "merged"
    /\ \E k \in 1..Len(merged_regions) :
          \E i, j \in clusters[k] :
              AllDetections[i].confidence # AllDetections[j].confidence

TextKey(i) == AllDetections[i].confidence * Len(AllDetections[i].text)

C16_BoxIsBoundingUnion ==
    merge_pc = "merged" =>
        \A k \in 1..Len(merged_regions) :
            LET box == merged_regions[k].bbox
                B(i) == AllDetections[i].bbox
            IN  /\ \A i \in clusters[k] :
                       /\ box[1] <= B(i)[1] /\ box[2] <= B(i)[2]
                       /\ B(i)[3] <= box[3] /\ B(i)[4] <= box[4]
                /\ \E i \in clusters[k] : box[1] = B(i)[1]
                /\ \E i \in clusters[k] : box[2] = B(i)[2]
                /\ \E i \in clusters[k] : box[3] = B(i)[3]
                /\ \E i \in clusters[k] : box[4] = B(i)[4]

\* A merged region of two different boxes, larger than either of them.
C16_Witness ==
    /\ merge_pc = "merged"
    /\ \E k \in 1..Len(merged_regions) :
          /\ Cardinality(clusters[k]) >= 2
          /\ \A i \in clusters[k] : merged_regions[k].bbox # AllDetections[i].bbox

-----------------------------------------------------------------------------
(* Claims about the rule store and the feedback loop (checked under Spec)  *)

SamePair(p, wrong, correct) == p.wrong_text = wrong /\ p.correct_text = correct

\* The in-memory store is what loading the file gives.
Loaded == ocr_patterns = LoadOcrPatterns(csv_rows, <<>>)

\* C5: after process_user_correction has handled (original, corrected), a
\* document whose text contains the original string has it replaced by the
\* corrected string in the text _post_process_text_with_patterns returns,
\* whatever context type the learned rule got.  Stated for the documents
\* processed right after the correction, with the learned rule in the
\* in-memory store and no other stored rule matching the text before or
\* after the replacement.
C5_LearnedCorrectionApplied ==
    (/\ pp.called
     /\ last_op.op = "correction"
     /\ last_op.patterns # <<>>
     /\ Contains(pp.text, last_op.original)
     /\ \E k \in 1..Len(ocr_patterns) :
            SamePair(ocr_patterns[k], last_op.original, last_op.corrected)
     /\ \A k \in 1..Len(ocr_patterns) :
            \/ SamePair(ocr_patterns[k], last_op.original, last_op.corrected)
            \/ /\ ~Contains(pp.text, ocr_patterns[k].wrong_text)
               /\ ~Contains(Replace(pp.text, last_op.original, last_op.corrected),
                            ocr_patterns[k].wrong_text))
    => pp.final = CleanLines(Replace(pp.text, last_op.original, last_op.corrected))

\* C6: when the file holds a row whose required field is missing, loading
\* skips only that row: every well-formed enabled row, before and after it,
\* is in the loaded collection.
C6_MalformedRowSkippedOnly ==
    last_op.op \in {"init", "reload"} =>
        \A k \in 1..Len(csv_rows) :
            (csv_rows[k].bad = "none" /\ csv_rows[k].Enabled)
            => \E j \in 1..Len(ocr_patterns) : ocr_patterns[j] = PatternOfRow(csv_rows[k])

\* What a call returns when only the rules satisfying Allowed are in the store.
ResultWithOnly(Allowed(_)) ==
    ApplyOcrCorrections(SelectSeq(ocr_patterns, Allowed), aoc.text, aoc.context)

SameOutcome(r1, r2) ==
    /\ r1.text = r2.text
    /\ r1.total_boost = r2.total_boost
    /\ r1.corrections_applied = r2.corrections_applied

\* C7 (as claimed): apply_ocr_corrections applies a rule only if the rule's
\* context type is "any" or equals the context argument; a rule with any
\* other context type changes neither the text nor the accumulated boost.
C7_OnlyAnyOrEqualContext ==
    aoc.called =>
        LET Allowed(p) == p.context_type = "any" \/ p.context_type = aoc.context
        IN  /\ \A n \in 1..Len(aoc.result.applied) :
                   Allowed(ocr_patterns[aoc.result.applied[n]])
            /\ SameOutcome(aoc.result, ResultWithOnly(Allowed))

\* C7 (amended): apply_ocr_corrections applies a rule only if the rule's
\* context type is "any", or the context argument is "any", or the two are
\* equal; a rule with any other context type changes neither the text nor
\* the accumulated boost.
C7_OnlyAnyOrEqualOrWildcardContext ==
    aoc.called =>
        LET Allowed(p) == \/ p.context_type = "any"
                          \/ aoc.context = "any"
                          \/ p.context_type = aoc.context
        IN  /\ \A n \in 1..Len(aoc.result.applied) :
                   Allowed(ocr_patterns[aoc.result.applied[n]])
            /\ SameOutcome(aoc.result, ResultWithOnly(Allowed))

\* A call whose text holds the wrong text of an enabled rule of another
\* context type, and which returned the text unchanged.
C7_Witness ==
    /\ aoc.called
    /\ aoc.context # "any"
    /\ \E k \in 1..Len(ocr_patterns) :
          /\ ocr_patterns[k].enabled
          /\ ocr_patterns[k].context_type \notin {"any", aoc.context}
          /\ Contains(aoc.text, ocr_patterns[k].wrong_text)
    /\ aoc.result.text = aoc.text
    /\ aoc.result.corrections_applied = 0

\* All generated patterns are the same (wrong, correct) pair.
OneRuleAppended(patterns) ==
    /\ patterns # <<>>
    /\ \A k \in 1..Len(patterns) :
           /\ patterns[k].Wrong_Text = patterns[1].Wrong_Text
           /\ patterns[k].Correct_Text = patterns[1].Correct_Text

\* C8: from a loaded rule set with N enabled rules, appending one rule whose
\* (wrongText, correctText) pair is not in the store and reloading yields
\* N + 1 enabled rules; appending a pair that is already there leaves N.
\* First conjunct: the append of process_user_correction (which reloads),
\* on a file without malformed rows; second: add_pattern_from_verification
\* followed by reload_patterns.
C8_AppendRoundTrip ==
    [][/\ (/\ n_appends' # n_appends
           /\ last_op'.op = "correction"
           /\ OneRuleAppended(last_op'.patterns)
           /\ Loaded
           /\ \A k \in 1..Len(csv_rows) : csv_rows[k].bad = "none")
          => EnabledCount(ocr_patterns') =
                 EnabledCount(ocr_patterns)
                 + (IF IsDuplicateRow(csv_rows, last_op'.patterns[1]) THEN 0 ELSE 1)
       /\ (last_op.op = "add" /\ last_op'.op = "reload")
          => EnabledCount(ocr_patterns') =
                 last_op.count_before + (IF last_op.added THEN 1 ELSE 0)
      ]_vars

ValidIdRows(rows) == {k \in 1..Len(rows) : rows[k].bad # "Pattern_ID"}

\* C9: after every append (through _update_pattern_csv or
\* add_pattern_from_verification) all rule ids in the store are pairwise
\* distinct, the rules that were there keep their ids, and the newly stored
\* rules get consecutive ids following the previous maximum.
C9_IdsDistinctStableSequential ==
    [][n_appends' # n_appends =>
        /\ \A i, j \in 1..Len(ocr_patterns') :
               i # j => ocr_patterns'[i].pattern_id # ocr_patterns'[j].pattern_id
        /\ \A i, j \in ValidIdRows(csv_rows') :
               i # j => csv_rows'[i].Pattern_ID # csv_rows'[j].Pattern_ID
        /\ Len(csv_rows') >= Len(csv_rows)
        /\ \A k \in 1..Len(csv_rows) : csv_rows'[k] = csv_rows[k]
        /\ \A k \in (Len(csv_rows) + 1)..Len(csv_rows') :
               csv_rows'[k].Pattern_ID =
                   (IF csv_rows = <<>> THEN 0 ELSE MaxPatternId(csv_rows))
                   + (k - Len(csv_rows))
      ]_vars

\* C10: the store is append-only: across appends and reloads, a rule that
\* is visible in the in-memory store stays visible with the same wrongText,
\* correctText, contextType, priority and boost.
C10_VisibleRuleStaysVisible ==
    [][\A k \in 1..Len(ocr_patterns) :
          \E j \in 1..Len(ocr_patterns') :
              /\ ocr_patterns'[j].wrong_text = ocr_patterns[k].wrong_text
              /\ ocr_patterns'[j].correct_text = ocr_patterns[k].correct_text
              /\ ocr_patterns'[j].context_type = ocr_patterns[k].context_type
              /\ ocr_patterns'[j].priority = ocr_patterns[k].priority
              /\ ocr_patterns'[j].confidence_boost = ocr_patterns[k].confidence_boost
      ]_vars

\* C11: after the initial load, reload_patterns and
\* add_pattern_from_verification, also on a file with malformed rows, the
\* in-memory rule list is in ascending priority order.
C11_SortedByPriority ==
    \A i, j \in 1..Len(ocr_patterns) :
        i < j => ocr_patterns[i].priority <= ocr_patterns[j].priority

\* The rules a call with this context may use: enabled and passing the
\* context test.
Usable(context) ==
    SelectSeq(ocr_patterns, LAMBDA p : p.enabled /\ ContextMatches(p.context_type, context))

\* The text after the rules of `rules`, taken in the order given, have each
\* replaced every occurrence of their wrong text in the text so far.
RECURSIVE RewriteInOrder(_, _)
RewriteInOrder(rules, text) ==
    IF rules = <<>> THEN text
    ELSE LET p == rules[1]
         IN  RewriteInOrder(Tail(rules),
                 IF Contains(text, p.wrong_text)
                 THEN Replace(text, p.wrong_text,
                              IF p.correct_text = EMPTY THEN <<>> ELSE p.correct_text)
                 ELSE text)

\* C12: apply_ocr_corrections returns the text obtained by visiting the
\* enabled, context-matching rules in ascending priority order, each rule
\* whose wrong text occurs in the current text replacing every occurrence by
\* its correct text (deleting it for "EMPTY"), the others leaving the text
\* unchanged.
C12_TextRewrittenInPriorityOrder ==
    aoc.called =>
        aoc.result.text = RewriteInOrder(SortByPriority(Usable(aoc.context)), aoc.text)

\* The (Wrong_Text, Correct_Text) pairs of a list of patterns.
PairsOf(patterns) ==
    [k \in 1..Len(patterns) |-> <<patterns[k].Wrong_Text, patterns[k].Correct_Text>>]

\* The aligned word pairs of the last correction.
AlignedPairs ==
    LET ow == SplitWords(last_op.original)
        cw == SplitWords(last_op.corrected)
    IN  [k \in 1..Len(ow) |-> <<ow[k], cw[k]>>]

SameWordCount == Len(SplitWords(last_op.original)) = Len(SplitWords(last_op.corrected))

NothingToLearn ==
    \/ last_op.original = <<>>
    \/ last_op.corrected = <<>>
    \/ last_op.original = last_op.corrected

\* The part of C26 about the cases without a rule and about the first rule.
FullPhraseRuleFirst ==
    /\ NothingToLearn => last_op.patterns = <<>>
    /\ ~NothingToLearn =>
           /\ last_op.patterns # <<>>
           /\ PairsOf(last_op.patterns)[1] = <<last_op.original, last_op.corrected>>
           /\ ~SameWordCount => Len(last_op.patterns) = 1

\* C26 as stated: _generate_patterns_from_correction returns no rule when
\* the trimmed original or corrected string is empty or the two are equal;
\* otherwise the full-phrase rule first and, when both strings split into
\* the same number of words, one more rule for each aligned word pair.
C26_WordRuleForEveryPair ==
    last_op.op = "correction" =>
        /\ FullPhraseRuleFirst
        /\ (~NothingToLearn /\ SameWordCount) =>
               Tail(PairsOf(last_op.patterns)) = AlignedPairs

\* C26, amended: as above, with one more rule for each aligned word pair
\* whose two words differ and whose original word has more than one
\* character, in word order, and none for the other pairs.
C26_WordRuleForChangedPairs ==
    last_op.op = "correction" =>
        /\ FullPhraseRuleFirst
        /\ (~NothingToLearn /\ SameWordCount) =>
               Tail(PairsOf(last_op.patterns)) =
                   SelectSeq(AlignedPairs, LAMBDA w : w[1] # w[2] /\ Len(w[1]) > 1)

\* A correction of two words of which only the second changed: the result
\* is the full-phrase rule and one word-level rule.
C26_Witness ==
    /\ last_op.op = "correction"
    /\ ~NothingToLearn
    /\ SameWordCount
    /\ Len(AlignedPairs) = 2
    /\ AlignedPairs[1][1] = AlignedPairs[1][2]
    /\ Len(last_op.patterns) = 2
    /\ PairsOf(last_op.patterns)[2] = AlignedPairs[2]

\* C24: if the wrong text of no enabled, context-matching rule occurs in
\* the text, apply_ocr_corrections returns the text unchanged, and applied
\* again to its own output it returns that output.
C24_NothingToCorrectIsFixpoint ==
    (/\ aoc.called
     /\ \A k \in 1..Len(Usable(aoc.context)) :
            ~Contains(aoc.text, Usable(aoc.context)[k].wrong_text)) =>
        /\ aoc.result.text = aoc.text
        /\ aoc.result.corrections_applied = 0
        /\ ApplyOcrCorrections(ocr_patterns, aoc.result.text, aoc.context).text
               = aoc.result.text

\* A call on a non-empty text in which no usable rule's wrong text occurs
\* while the store holds usable rules and the wrong text of a rule of
\* another context type does occur.
C24_Witness ==
    /\ aoc.called
    /\ aoc.text # <<>>
    /\ Usable(aoc.context) # <<>>
    /\ \A k \in 1..Len(Usable(aoc.context)) :
           ~Contains(aoc.text, Usable(aoc.context)[k].wrong_text)
    /\ \E k \in 1..Len(ocr_patterns) :
           /\ ~ContextMatches(ocr_patterns[k].context_type, aoc.context)
           /\ Contains(aoc.text, ocr_patterns[k].wrong_text)
    /\ ApplyOcrCorrections(ocr_patterns, aoc.result.text, aoc.context).text = aoc.text

\* No line of the text is empty or begins or ends with whitespace (the
\* text without any character has no line).
NoBlankOrPaddedLine(text) ==
    \/ text = <<>>
    \/ LET lines == SplitLines(text)
       IN  \A k \in 1..Len(lines) :
               /\ lines[k] # <<>>
               /\ ~IsSpace(lines[k][1])
               /\ ~IsSpace(lines[k][Len(lines[k])])

\* C22: for a non-empty text _post_process_text_with_patterns runs the
\* literal corrections with context "global", then the context rules on the
\* corrected text, then the whitespace cleanup; the returned text has no
\* empty line and no line with leading or trailing whitespace.
C22_PassesInFixedOrder ==
    (pp.called /\ pp.text # <<>>) =>
        LET corrected == ApplyOcrCorrections(ocr_patterns, pp.text, "global").text
            validated == ApplyContextRulesText(corrected)
        IN  /\ pp.final = CleanLines(validated)
            /\ NoBlankOrPaddedLine(pp.final)

\* A text one of whose lines is emptied by a correction and dropped by the
\* cleanup that follows.
C22_Witness ==
    /\ pp.called
    /\ \A k \in 1..Len(SplitLines(pp.text)) : Strip(SplitLines(pp.text)[k]) # <<>>
    /\ ApplyOcrCorrections(ocr_patterns, pp.text, "global").applied # <<>>
    /\ Len(SplitLines(pp.final)) < Len(SplitLines(pp.text))
    /\ pp.final # <<>>

\* The rules that replaced text in the last call.
AppliedRules == [n \in 1..Len(aoc.result.applied) |-> ocr_patterns[aoc.result.applied[n]]]

AppliedBoostSum ==
    SumOver([n \in 1..Len(AppliedRules) |-> AppliedRules[n].confidence_boost],
            1..Len(AppliedRules))

\* C13 (as claimed): the returned boost is the arithmetic mean of the boosts
\* of exactly the rules that replaced text, 0 when none did and for the
\* empty text, and never exceeds 0.5.
C13_BoostIsMeanAndAtMostCap ==
    aoc.called =>
        /\ aoc.result.applied = <<>> => aoc.boost[1] = 0
        /\ aoc.result.applied # <<>> =>
               aoc.boost[1] * Len(AppliedRules) = AppliedBoostSum * aoc.boost[2]
        /\ aoc.boost[1] <= BoostCap * aoc.boost[2]

\* C13 (amended): the returned boost is the smaller of 0.5 and the
\* arithmetic mean of the boosts of exactly the rules that replaced text; it
\* is 0 when none did and for the empty text.
C13_BoostIsCappedMean ==
    aoc.called =>
        /\ aoc.result.applied = <<>> => aoc.boost[1] = 0
        /\ (aoc.result.applied # <<>> /\ AppliedBoostSum <= BoostCap * Len(AppliedRules)) =>
               aoc.boost[1] * Len(AppliedRules) = AppliedBoostSum * aoc.boost[2]
        /\ (aoc.result.applied # <<>> /\ AppliedBoostSum > BoostCap * Len(AppliedRules)) =>
               aoc.boost[1] = BoostCap * aoc.boost[2]

\* A call in which a rule replaced text and the mean of the boosts is above
\* the ceiling.
C13_Witness ==
    /\ aoc.called
    /\ aoc.result.applied # <<>>
    /\ AppliedBoostSum > BoostCap * Len(AppliedRules)
    /\ aoc.result.text # aoc.text

(***************************************************************************)
(* reload_patterns running next to a reader of the same PatternManager.    *)
(* Each list operation (clear, append, sort, one step of the list          *)
(* iterator) is one atomic step; the two threads interleave between them.  *)
(***************************************************************************)

InitReload ==
    /\ csv_rows \in Templates
    /\ ocr_patterns = LoadOcrPatterns(csv_rows, <<>>)
    /\ aoc = NoCall
    /\ pp = NoCall
    /\ last_op = [op |-> "init"]
    /\ n_appends = 0
    /\ MergeIdle
    /\ ReloadIdle
    /\ ProcessorFresh
    /\ VerifyIdle
    /\ SectionsIdle
    /\ RaceIdle
    /\ ApiIdle

\* apply_ocr_corrections on a non-empty text: `for pattern in self.ocr_patterns`
\* takes an iterator over the list object.
ReaderStart ==
    /\ r_pc = "idle"
    /\ r_pc' = "iter"
    /\ r_idx' = 0
    /\ r_seen' = <<>>
    /\ UNCHANGED <<l_pc, l_idx, old_patterns>>
    /\ UNCHANGED <<mergeVars, storeVars, procVars, verifyVars, sectionVars, raceVars, apiVars>>

\* One step of the list iterator: the element at the index, if the list is
\* that long now, else the loop ends.
ReaderStep ==
    /\ r_pc = "iter"
    /\ IF r_idx < Len(ocr_patterns)
       THEN /\ r_seen' = Append(r_seen, ocr_patterns[r_idx + 1])
            /\ r_idx' = r_idx + 1
            /\ r_pc' = "iter"
       ELSE /\ r_pc' = "done"
            /\ UNCHANGED <<r_idx, r_seen>>
    /\ UNCHANGED <<l_pc, l_idx, old_patterns>>
    /\ UNCHANGED <<mergeVars, storeVars, procVars, verifyVars, sectionVars, raceVars, apiVars>>

\* process_user_correction up to the call of reload_patterns: the file is
\* rewritten; without patterns nothing is reloaded.
UpdateCsvStep(original_text, corrected_text) ==
    /\ l_pc = "idle"
    /\ LET patterns == GeneratePatternsFromCorrection(original_text, corrected_text)
       IN  IF patterns # <<>>
           THEN /\ csv_rows' = UpdatePatternCsv(csv_rows, patterns)
                /\ l_pc' = "updated"
           ELSE /\ csv_rows' = csv_rows
                /\ l_pc' = "done"
    /\ UNCHANGED <<ocr_patterns, aoc, pp, last_op, n_appends>>
    /\ UNCHANGED <<r_pc, r_idx, r_seen, l_idx, old_patterns>>
    /\ UNCHANGED <<mergeVars, procVars, verifyVars, sectionVars, raceVars, apiVars>>

\* reload_patterns: self.ocr_patterns.clear()
ReloadClear ==
    /\ l_pc \in {"idle", "updated"}
    /\ old_patterns' = ocr_patterns
    /\ ocr_patterns' = <<>>
    /\ l_pc' = "loading"
    /\ l_idx' = 1
    /\ UNCHANGED <<csv_rows, aoc, pp, last_op, n_appends>>
    /\ UNCHANGED <<r_pc, r_idx, r_seen>>
    /\ UNCHANGED <<mergeVars, procVars, verifyVars, sectionVars, raceVars, apiVars>>

\* _load_ocr_patterns: one row of the loop.
ReloadRow ==
    /\ l_pc = "loading"
    /\ l_idx <= Len(csv_rows)
    /\ LET row == csv_rows[l_idx]
       IN  IF ~row.Enabled
           THEN /\ l_pc' = "loading"
                /\ UNCHANGED ocr_patterns
           ELSE IF RowRaises(row)
           THEN /\ l_pc' = "done"
                /\ UNCHANGED ocr_patterns
           ELSE /\ l_pc' = "loading"
                /\ ocr_patterns' = Append(ocr_patterns, PatternOfRow(row))
    /\ l_idx' = l_idx + 1
    /\ UNCHANGED <<csv_rows, aoc, pp, last_op, n_appends>>
    /\ UNCHANGED <<r_pc, r_idx, r_seen, old_patterns>>
    /\ UNCHANGED <<mergeVars, procVars, verifyVars, sectionVars, raceVars, apiVars>>

\* _load_ocr_patterns: the sort after the loop (or the return when there is
\* no file).
ReloadSort ==
    /\ l_pc = "loading"
    /\ l_idx > Len(csv_rows)
    /\ ocr_patterns' = SortByPriority(ocr_patterns)
    /\ l_pc' = "done"
    /\ UNCHANGED <<csv_rows, aoc, pp, last_op, n_appends>>
    /\ UNCHANGED <<r_pc, r_idx, r_seen, l_idx, old_patterns>>
    /\ UNCHANGED <<mergeVars, procVars, verifyVars, sectionVars, raceVars, apiVars>>

NextReload ==
    \/ ReaderStart
    \/ ReaderStep
    \/ \E c \in Corrections : UpdateCsvStep(c[1], c[2])
    \/ ReloadClear
    \/ ReloadRow
    \/ ReloadSort

SpecReload == InitReload /\ [][NextReload]_vars

\* The collection before the reload and the collection after it.
CollectionBefore == IF l_pc \in {"idle", "updated"} THEN ocr_patterns ELSE old_patterns

CollectionAfter == LoadOcrPatterns(csv_rows, <<>>)

\* C3: a reader whose loop ran while reload_patterns ran has iterated over
\* the complete collection as it was before the reload or the complete
\* collection as it is after it, never over an empty or partly loaded one
\* (stated for a file all of whose rows are well formed).
C3_ReaderSeesCompleteCollection ==
    (/\ r_pc = "done"
     /\ \A k \in 1..Len(csv_rows) : csv_rows[k].bad = "none")
        => r_seen \in {CollectionBefore, CollectionAfter}

(***************************************************************************)
(* process_document on one HybridProcessor.  A document is given by what   *)
(* the stages before the processor's own bookkeeping yield for it: the     *)
(* regions of each page in reading order, the type detect_document_type    *)
(* finds in its text, the candidate analyze_document proposes and the      *)
(* sections detect_sections finds in its pages.                            *)
(***************************************************************************)

\* The sort key of _extract_text_from_regions: (bbox[1], bbox[0]), compared
\* as Python compares tuples. A bbox is <<x1, y1, x2, y2>>.
ReadsBefore(r, q) ==
    \/ r.bbox[2] < q.bbox[2]
    \/ r.bbox[2] = q.bbox[2] /\ r.bbox[1] < q.bbox[1]

\* sorted(regions, key=...): a stable sort, written as insertion of each
\* region behind the last region that does not read after it.
RECURSIVE SortedRegions(_)
SortedRegions(regions) ==
    IF regions = <<>> THEN <<>>
    ELSE LET n    == Len(regions)
             head == SortedRegions(SubSeq(regions, 1, n - 1))
             r    == regions[n]
             at   == SetMax({0} \cup {k \in 1..Len(head) : ~ReadsBefore(r, head[k])})
         IN  SubSeq(head, 1, at) \o <<r>> \o SubSeq(head, at + 1, Len(head))

\* The texts of the regions joined in the order the reconciler returned
\* them.
ExtractTextInInputOrder(regions) ==
    JoinLines(SelectSeq([k \in 1..Len(regions) |-> regions[k].text],
                        LAMBDA t : Strip(t) # <<>>))

\* _extract_text_from_regions
ExtractTextFromRegions(regions) ==
    LET sorted_regions == SortedRegions(regions)
    IN  JoinLines(SelectSeq([k \in 1..Len(sorted_regions) |-> sorted_regions[k].text],
                            LAMBDA t : Strip(t) # <<>>))

RECURSIVE JoinPages(_)
JoinPages(pages) ==
    IF pages = <<>> THEN <<>>
    ELSE IF Len(pages) = 1 THEN pages[1]
    ELSE pages[1] \o <<"\n", "\n">> \o JoinPages(Tail(pages))

\* all_regions: the regions of the pages, in page order
RECURSIVE AllRegions(_)
AllRegions(pages) ==
    IF pages = <<>> THEN <<>> ELSE pages[1] \o AllRegions(Tail(pages))

\* _merge_text_results
MergeTextResults(text_pages) ==
    JoinPages(SelectSeq(text_pages, LAMBDA page : Strip(page) # <<>>))

\* Confidence scores computed from region confidences raised by the boost
\* cap.
CalculateBoostedConfidenceScores(regions) ==
    IF regions = <<>> THEN [overall_sum |-> 0, regions_count |-> 0, min |-> 0, max |-> 0]
    ELSE LET confidences == {regions[k].confidence + BoostCap : k \in 1..Len(regions)}
         IN  [overall_sum |-> SumOver([k \in 1..Len(regions) |->
                                           regions[k].confidence + BoostCap],
                                      1..Len(regions)),
              regions_count |-> Len(regions),
              min |-> SetMin(confidences),
              max |-> SetMax(confidences)]

\* _calculate_confidence_scores; the mean is kept as sum and count
CalculateConfidenceScores(regions) ==
    IF regions = <<>> THEN [overall_sum |-> 0, regions_count |-> 0, min |-> 0, max |-> 0]
    ELSE LET confidences == {regions[k].confidence : k \in 1..Len(regions)}
         IN  [overall_sum |-> SumOver([k \in 1..Len(regions) |-> regions[k].confidence],
                                      1..Len(regions)),
              regions_count |-> Len(regions),
              min |-> SetMin(confidences),
              max |-> SetMax(confidences)]

\* _generate_metadata and the two keys process_document adds to it; a key
\* that is absent is "None" (candidate) or <<>> (sections)
GenerateMetadata(num_pages, regions, patterns, document_type, candidate, sections) ==
    [num_pages |-> num_pages,
     num_text_regions |-> Len(regions),
     document_type |-> document_type,
     enabled_ocr_patterns |-> EnabledCount(patterns),
     handwritten_regions |->
         Cardinality({k \in 1..Len(regions) : regions[k].region_type = "handwritten"}),
     printed_regions |->
         Cardinality({k \in 1..Len(regions) : regions[k].region_type = "printed"}),
     suggested_document_type |-> candidate,
     document_sections |-> sections]

\* A failed pass whose result has lost its message.
FailureResultWithoutMessage(error_message) ==
    [success |-> FALSE, text_content |-> <<>>, regions |-> <<>>,
     metadata |-> [empty |-> TRUE],
     confidence_scores |-> [empty |-> TRUE],
     error_message |-> "None"]

\* The ProcessingResult of a failed pass.
FailureResult(error_message) ==
    [success |-> FALSE, text_content |-> <<>>, regions |-> <<>>,
     metadata |-> [empty |-> TRUE],
     confidence_scores |-> [empty |-> TRUE],
     error_message |-> error_message]

\* self.document_type_candidate after the pass: assigned only when the
\* detected type is "General".
CandidateAfter(d, before) ==
    IF d.doc_type = "General" THEN d.candidate ELSE before

\* self.detected_sections after the pass: assigned only when the document
\* has more than one page.
SectionsAfter(d, before) ==
    IF Len(d.pages) > 1 THEN d.sections ELSE before

\* The ProcessingResult of process_document for document d with rules
\* `patterns` on a processor whose candidate and sections fields hold the
\* given values when the pass begins.
ProcessingResultOf(d, patterns, candidate_before, sections_before) ==
    IF ~d.supported THEN FailureResult("Unsupported file type")
    ELSE IF d.raises THEN FailureResult("exception")
    ELSE LET all_regions   == AllRegions(d.pages)
             all_text      == [k \in 1..Len(d.pages) |-> ExtractTextFromRegions(d.pages[k])]
             combined_text == MergeTextResults(all_text)
         IN  [success |-> TRUE,
              text_content |-> PostProcessText(patterns, combined_text),
              regions |-> all_regions,
              metadata |-> GenerateMetadata(Len(d.pages), all_regions, patterns,
                                            d.doc_type,
                                            CandidateAfter(d, candidate_before),
                                            SectionsAfter(d, sections_before)),
              confidence_scores |-> CalculateConfidenceScores(all_regions),
              error_message |-> "None"]

\* Regions as the reconciler returns them.
RegionMonth ==
    [text |-> <<"5", " ", "m", "c", "i">>, bbox |-> <<10, 20, 60, 30>>,
     confidence |-> 90, region_type |-> "printed"]

RegionNoisy ==
    [text |-> <<"9", "o", "~">>, bbox |-> <<0, 20, 8, 30>>,
     confidence |-> 40, region_type |-> "handwritten"]

RegionBlank ==
    [text |-> <<" ">>, bbox |-> <<0, 0, 5, 5>>,
     confidence |-> 60, region_type |-> "printed"]

\* A region with the top and left of RegionMonth.
RegionTitle ==
    [text |-> <<"a", "b">>, bbox |-> <<10, 20, 30, 28>>,
     confidence |-> 70, region_type |-> "printed"]

\* A supported document that is read without an exception.
Doc(pages, doc_type, candidate, sections) ==
    [supported |-> TRUE, raises |-> FALSE, pages |-> pages, doc_type |-> doc_type,
     candidate |-> candidate, sections |-> sections]

UnsupportedDoc ==
    [supported |-> FALSE, raises |-> FALSE, pages |-> <<>>, doc_type |-> "General",
     candidate |-> "None", sections |-> <<>>]

RaisingDoc == [UnsupportedDoc EXCEPT !.supported = TRUE, !.raises = TRUE]

\* A two-page document whose second page makes an OCR engine raise, after
\* the first page has been processed.
RaisingLateDoc ==
    [Doc(<<<<RegionMonth>>, <<RegionNoisy>>>>, "General", "None", <<>>)
        EXCEPT !.raises = TRUE]

\* The documents, each with its own page contents: an unsupported file, one
\* whose preparation raises, one-page and two-page documents of a known
\* type and of type "General", with and without a candidate and sections,
\* and documents whose regions arrive out of reading order, with regions of
\* equal top and left and with a blank page between two pages with text.
\* analyze_document and detect_sections yield something only where
\* process_document calls them.
Docs ==
    {UnsupportedDoc,
     RaisingDoc,
     RaisingLateDoc,
     Doc(<<<<RegionMonth>>>>, "General", "Legal_Putusan", <<>>),
     Doc(<<<<RegionNoisy>>>>, "General", "None", <<>>),
     Doc(<<<<RegionNoisy, RegionBlank>>>>, "Surat_Dinas", "None", <<>>),
     Doc(<<<<RegionMonth>>, <<RegionNoisy>>>>, "General", "None", <<"cover", "content">>),
     Doc(<<<<RegionNoisy>>, <<RegionMonth>>>>, "General", "Legal_Putusan",
         <<"cover", "content">>),
     Doc(<<<<RegionNoisy>>, <<RegionBlank>>>>, "Surat_Dinas", "None", <<>>),
     Doc(<<<<RegionMonth, RegionTitle, RegionNoisy>>>>, "Surat_Dinas", "None", <<>>),
     Doc(<<<<RegionTitle, RegionBlank, RegionMonth, RegionNoisy>>, <<RegionBlank>>,
           <<RegionNoisy>>>>,
         "Surat_Dinas", "None", <<"cover", "content">>)}

InitProc ==
    /\ csv_rows \in Templates
    /\ ocr_patterns = LoadOcrPatterns(csv_rows, <<>>)
    /\ aoc = NoCall
    /\ pp = NoCall
    /\ last_op = [op |-> "init"]
    /\ n_appends = 0
    /\ MergeIdle
    /\ ReloadIdle
    /\ ProcessorFresh
    /\ VerifyIdle
    /\ SectionsIdle
    /\ RaceIdle
    /\ ApiIdle

\* process_document(file_path) for document d
ProcessDocument(d) ==
    /\ doc' = d
    /\ result' = ProcessingResultOf(d, ocr_patterns, document_type_candidate,
                                    detected_sections)
    /\ IF d.supported /\ ~d.raises
       THEN /\ detected_document_type' = d.doc_type
            /\ document_type_candidate' = CandidateAfter(d, document_type_candidate)
            /\ detected_sections' = SectionsAfter(d, detected_sections)
       ELSE UNCHANGED <<detected_document_type, document_type_candidate,
                        detected_sections>>
    /\ UNCHANGED <<mergeVars, storeVars, reloadVars, verifyVars, sectionVars, raceVars, apiVars>>

NextProc == \E d \in Docs : ProcessDocument(d)

SpecProc == InitProc /\ [][NextProc]_vars

\* The result of the same document processed alone on a fresh processor
\* holding the same rules.
FreshResult(d) == ProcessingResultOf(d, ocr_patterns, "None", <<>>)

\* C4: whatever documents the processor has handled before, the
\* ProcessingResult of a document (text, regions, metadata with
\* document_type, suggested_document_type and document_sections) is the one
\* it gets alone on a fresh processor with the same rules.
C4_ResultDependsOnOwnInputOnly ==
    result # NoCall => result = FreshResult(doc)

\* C21: every ProcessingResult with success = false has empty text, no
\* regions, empty confidence scores and an error message, for an
\* unsupported file and for an exception raised after pages were processed
\* alike; every result with success = true has no error message.
C21_FailureCarriesOnlyMessage ==
    result # NoCall =>
        /\ ~result.success =>
               /\ result.text_content = <<>>
               /\ result.regions = <<>>
               /\ result.confidence_scores = [empty |-> TRUE]
               /\ result.error_message # "None"
        /\ result.success => result.error_message = "None"
        /\ result.success <=> (doc.supported /\ ~doc.raises)

\* A failed pass of a document with pages, on a processor that has
\* completed a pass before.
C21_Witness ==
    /\ result # NoCall
    /\ ~result.success
    /\ doc.pages # <<>>
    /\ detected_document_type # "General"

\* The text of the last document as it enters the correction pipeline.
CombinedText ==
    MergeTextResults([k \in 1..Len(doc.pages) |-> ExtractTextFromRegions(doc.pages[k])])

\* C23: whatever rules match and whatever boosts are computed, the regions
\* of a successful result are the reconciler's regions with their text, box,
\* confidence and type, and the confidence scores are the sum, count,
\* minimum and maximum of those regions' confidences.
C23_RegionsUntouchedByCorrections ==
    (result # NoCall /\ result.success) =>
        LET regions == AllRegions(doc.pages)
            n       == Len(regions)
        IN  /\ result.regions = regions
            /\ result.confidence_scores.regions_count = n
            /\ n > 0 =>
                   /\ result.confidence_scores.overall_sum =
                          SumOver([k \in 1..n |-> regions[k].confidence], 1..n)
                   /\ \A k \in 1..n :
                          /\ result.confidence_scores.min <= regions[k].confidence
                          /\ result.confidence_scores.max >= regions[k].confidence
                   /\ \E k \in 1..n : result.confidence_scores.min = regions[k].confidence
                   /\ \E k \in 1..n : result.confidence_scores.max = regions[k].confidence

\* A successful pass in which a rule with a positive boost rewrote the text.
C23_Witness ==
    /\ result # NoCall
    /\ result.success
    /\ result.regions # <<>>
    /\ LET r == ApplyOcrCorrections(ocr_patterns, CombinedText, PipelineContext)
       IN  /\ r.applied # <<>>
           /\ r.total_boost > 0
           /\ r.text # CombinedText

\* The non-blank regions of a page.
Kept(regions) == {k \in 1..Len(regions) : Strip(regions[k].text) # <<>>}

\* The place of region k among the kept regions of its page: one more than
\* the number of kept regions with a lower (top, left), or with the same
\* (top, left) and a lower index.
Place(regions, k) ==
    1 + Cardinality({j \in Kept(regions) :
            \/ regions[j].bbox[2] < regions[k].bbox[2]
            \/ /\ regions[j].bbox[2] = regions[k].bbox[2]
               /\ regions[j].bbox[1] < regions[k].bbox[1]
            \/ /\ regions[j].bbox[2] = regions[k].bbox[2]
               /\ regions[j].bbox[1] = regions[k].bbox[1]
               /\ j < k})

\* The lines of a page in reading order.
ReadingLines(regions) ==
    [p \in 1..Cardinality(Kept(regions)) |->
        regions[CHOOSE k \in Kept(regions) : Place(regions, k) = p].text]

\* The indexes of the pages that have a non-blank region.
TextPages == {k \in 1..Len(doc.pages) : Kept(doc.pages[k]) # {}}

\* The lines of the pages with text, a blank line between two pages.
RECURSIVE PagesJoinedFrom(_)
PagesJoinedFrom(k) ==
    IF k > Len(doc.pages) THEN <<>>
    ELSE IF k \notin TextPages THEN PagesJoinedFrom(k + 1)
    ELSE ReadingLines(doc.pages[k])
         \o (IF \E j \in TextPages : j > k THEN <<<<>>>> ELSE <<>>)
         \o PagesJoinedFrom(k + 1)

\* C27: the text of a page is one line per non-blank region, ordered by
\* ascending (box top, box left) with regions of equal key in their input
\* order, blank regions omitted; the page texts are joined with a blank
\* line, blank pages omitted.
C27_ReadingOrderAndPageJoin ==
    (result # NoCall /\ result.success) =>
        /\ \A k \in 1..Len(doc.pages) :
               ExtractTextFromRegions(doc.pages[k]) = JoinLines(ReadingLines(doc.pages[k]))
        /\ CombinedText = JoinLines(PagesJoinedFrom(1))
        /\ result.text_content = PostProcessText(ocr_patterns, JoinLines(PagesJoinedFrom(1)))

\* A document with a page whose regions arrive out of reading order, two of
\* them with the same top and left, and with a blank page between pages
\* with text.
C27_Witness ==
    /\ result # NoCall
    /\ result.success
    /\ \E k \in 1..Len(doc.pages) :
           /\ ExtractTextFromRegions(doc.pages[k]) # ExtractTextInInputOrder(doc.pages[k])
           /\ \E i, j \in Kept(doc.pages[k]) :
                  /\ i < j
                  /\ doc.pages[k][i].bbox[1] = doc.pages[k][j].bbox[1]
                  /\ doc.pages[k][i].bbox[2] = doc.pages[k][j].bbox[2]
    /\ \E k \in 1..Len(doc.pages) :
           /\ k \notin TextPages
           /\ \E i, j \in TextPages : i < k /\ k < j

(***************************************************************************)
(* The verification prioritizer: get_regions_for_verification.             *)
(* Confidences are hundredths.  Scores are ten-thousandths of the decimal  *)
(* value, except that the two sums which double addition does not round to *)
(* the decimal value, 0.4 + 0.2 = 0.6000000000000001 and                   *)
(* 0.7 + 0.2 = 0.8999999999999999, are one unit above and one unit below.  *)
(***************************************************************************)

\* self.verification_threshold, in hundredths
VerificationThreshold == 50

\* The score a region needs to exceed, 0.3
InclusionThreshold == 3000

\* verification_regions[:10]
TopLimit == 10

\* padding of _crop_region_image
CropPadding == 10

\* score += x in double arithmetic
FloatAdd(score, x) ==
    IF score = 4000 /\ x = 2000 THEN 6001
    ELSE IF score = 7000 /\ x = 2000 THEN 8999
    ELSE score + x

\* suspicious_chars; the backquote is written "BQ"
SuspiciousChars ==
    {<<"BQ">>, <<"~">>, <<"|">>, <<"i", "o", "8">>, <<"9", "0", "2", "5">>,
     <<"F", "c", "b", "r", "u", "a", "r">>}

\* The low-confidence signal left out.
PriorityScoreIgnoringConfidence(region) ==
    LET s2 == IF region.region_type = "handwritten" THEN FloatAdd(0, 3000) ELSE 0
        s3 == IF \E w \in SuspiciousChars : Contains(region.text, w)
              THEN FloatAdd(s2, 3000) ELSE s2
        s4 == IF Len(Strip(region.text)) < 5 THEN FloatAdd(s3, 2000) ELSE s3
    IN  Min2(s4, 10000)

\* The low-confidence signal turned round: 0.4 for a confidence at or above
\* the threshold.
PriorityScoreRewardingConfidence(region) ==
    LET s1 == IF region.confidence >= VerificationThreshold THEN FloatAdd(0, 4000) ELSE 0
        s2 == IF region.region_type = "handwritten" THEN FloatAdd(s1, 3000) ELSE s1
        s3 == IF \E w \in SuspiciousChars : Contains(region.text, w)
              THEN FloatAdd(s2, 3000) ELSE s2
        s4 == IF Len(Strip(region.text)) < 5 THEN FloatAdd(s3, 2000) ELSE s3
    IN  Min2(s4, 10000)

\* _calculate_priority_score
CalculatePriorityScore(region) ==
    LET s1 == IF region.confidence < VerificationThreshold THEN FloatAdd(0, 4000) ELSE 0
        s2 == IF region.region_type = "handwritten" THEN FloatAdd(s1, 3000) ELSE s1
        s3 == IF \E w \in SuspiciousChars : Contains(region.text, w)
              THEN FloatAdd(s2, 3000) ELSE s2
        s4 == IF Len(Strip(region.text)) < 5 THEN FloatAdd(s3, 2000) ELSE s3
    IN  Min2(s4, 10000)

\* The return value "" of the except clause of _crop_region_image.
EmptyImage == [empty |-> TRUE, box |-> <<0, 0, 0, 0>>, resized |-> FALSE]

\* _crop_region_image(image, bbox): the padded box clipped to the image; an
\* image that is None raises on image.shape, an empty crop raises on 50 / 0,
\* and both end in the except clause; a crop with a side under 50 is resized.
CropRegionImage(image, bbox) ==
    IF ~image.present THEN EmptyImage
    ELSE LET x1 == Max2(0, bbox[1] - CropPadding)
             y1 == Max2(0, bbox[2] - CropPadding)
             x2 == Min2(image.w, bbox[3] + CropPadding)
             y2 == Min2(image.h, bbox[4] + CropPadding)
         IN  IF x2 <= x1 \/ y2 <= y1 THEN EmptyImage
             ELSE [empty |-> FALSE, box |-> <<x1, y1, x2, y2>>,
                   resized |-> (y2 - y1 < 50 \/ x2 - x1 < 50)]

\* list.sort(key = priority_score, reverse = True): stable, descending.
RECURSIVE SortByScoreDescending(_)
SortByScoreDescending(cs) ==
    IF cs = <<>> THEN <<>>
    ELSE LET highest == SetMax({cs[k].priority_score : k \in 1..Len(cs)})
             first   == SetMin({k \in 1..Len(cs) : cs[k].priority_score = highest})
         IN  <<cs[first]>> \o
             SortByScoreDescending(SubSeq(cs, 1, first - 1) \o SubSeq(cs, first + 1, Len(cs)))

\* The loop of get_regions_for_verification from region k on (region_id is
\* the 0-based index).
RECURSIVE CandidatesFrom(_, _, _)
CandidatesFrom(regions, image, k) ==
    IF k > Len(regions) THEN <<>>
    ELSE LET region == regions[k]
             priority_score == CalculatePriorityScore(region)
         IN  IF priority_score > InclusionThreshold
             THEN <<[region_id |-> k - 1,
                     text |-> region.text,
                     bbox |-> region.bbox,
                     confidence |-> region.confidence,
                     region_type |-> region.region_type,
                     cropped_image_b64 |-> CropRegionImage(image, region.bbox),
                     priority_score |-> priority_score]>>
                  \o CandidatesFrom(regions, image, k + 1)
             ELSE CandidatesFrom(regions, image, k + 1)

\* The list without the truncation.
GetRegionsForVerificationAll(regions, image) ==
    SortByScoreDescending(CandidatesFrom(regions, image, 1))

\* get_regions_for_verification(regions, image, document_id)
GetRegionsForVerification(regions, image) ==
    LET sorted == SortByScoreDescending(CandidatesFrom(regions, image, 1))
    IN  SubSeq(sorted, 1, Min2(TopLimit, Len(sorted)))

\* Regions as process_document returns them.
VRegion(text, confidence, region_type, bbox) ==
    [text |-> text, confidence |-> confidence, region_type |-> region_type, bbox |-> bbox]

\* Every signal present: score 1.0.
RegionAllSignals == VRegion(<<"i", "o", "8">>, 30, "handwritten", <<10, 10, 50, 30>>)

\* No signal: score 0.
RegionNormal ==
    VRegion(<<"N", "o", "r", "m", "a", "l", " ", "t", "e", "x", "t">>, 90, "printed",
            <<60, 10, 150, 30>>)

\* Low confidence and short, its box to the right of the image.
RegionShortLow == VRegion(<<"a", "b">>, 20, "printed", <<400, 10, 450, 30>>)

\* Handwritten with a known-bad character: score 0.6.
RegionHandNoisy ==
    VRegion(<<"a", "b", "c", "d", "~", "f">>, 90, "handwritten", <<10, 40, 200, 100>>)

\* Confidence 0.2, handwritten, text "ab".
RegionExample == VRegion(<<"a", "b">>, 20, "handwritten", <<10, 110, 50, 130>>)

\* The same region with its confidence at the threshold.
RegionExampleAtThreshold == [RegionExample EXCEPT !.confidence = 50]

VRegionKinds ==
    {RegionAllSignals, RegionNormal, RegionShortLow, RegionHandNoisy, RegionExample,
     RegionExampleAtThreshold}

MaxRegions == 3

FillerLen == 9

\* A run of regions that all qualify, to fill the list beyond the limit.
Filler == [k \in 1..FillerLen |-> RegionHandNoisy]

Image200x300 == [present |-> TRUE, h |-> 200, w |-> 300]

InitVerify ==
    /\ \E head \in SeqsUpTo(VRegionKinds, MaxRegions) :
           v_regions \in {head, head \o Filler, Filler \o head}
    /\ v_image \in {NoImage, Image200x300}
    /\ verification_regions = NoCall
    /\ MergeIdle
    /\ StoreIdle
    /\ ReloadIdle
    /\ ProcessorFresh
    /\ SectionsIdle
    /\ RaceIdle
    /\ ApiIdle

\* One call get_regions_for_verification(regions, image, document_id).
CallGetRegionsForVerification ==
    /\ verification_regions = NoCall
    /\ verification_regions' =
           [called |-> TRUE,
            scores |-> [k \in 1..Len(v_regions) |-> CalculatePriorityScore(v_regions[k])],
            candidates |-> GetRegionsForVerification(v_regions, v_image)]
    /\ UNCHANGED <<v_regions, v_image>>
    /\ UNCHANGED <<mergeVars, storeVars, reloadVars, procVars, sectionVars, raceVars, apiVars>>

NextVerify == CallGetRegionsForVerification

SpecVerify == InitVerify /\ [][NextVerify]_vars

-----------------------------------------------------------------------------
(* Claims about the verification prioritizer (checked under SpecVerify)    *)

Indicator(b) == IF b THEN 1 ELSE 0

LowConfidence(region) == region.confidence < 50

Handwritten(region) == region.region_type = "handwritten"

KnownBad(region) == \E w \in SuspiciousChars : Contains(region.text, w)

ShortText(region) == Len(Strip(region.text)) < 5

\* min(1.0, 0.4*[..] + 0.3*[..] + 0.3*[..] + 0.2*[..]) in exact arithmetic.
ExactScore(region) ==
    Min2(10000, 4000 * Indicator(LowConfidence(region))
              + 3000 * Indicator(Handwritten(region))
              + 3000 * Indicator(KnownBad(region))
              + 2000 * Indicator(ShortText(region)))

\* The same expression evaluated left to right in double arithmetic.
DoubleScore(region) ==
    Min2(10000,
         FloatAdd(FloatAdd(FloatAdd(4000 * Indicator(LowConfidence(region)),
                                    3000 * Indicator(Handwritten(region))),
                           3000 * Indicator(KnownBad(region))),
                  2000 * Indicator(ShortText(region))))

IsExampleRegion(region) ==
    region.confidence = 20 /\ Handwritten(region) /\ region.text = <<"a", "b">>

\* C17 (as claimed): the priority score of every region equals
\* min(1.0, 0.4*[confidence < 0.5] + 0.3*[handwritten] + 0.3*[known-bad
\* substring] + 0.2*[trimmed text shorter than 5]); confidence 0.2,
\* handwritten, text "ab" scores 0.9.
C17_ScoreEqualsFormula ==
    verification_regions.called =>
        \A k \in 1..Len(v_regions) :
            /\ verification_regions.scores[k] = ExactScore(v_regions[k])
            /\ IsExampleRegion(v_regions[k]) => verification_regions.scores[k] = 9000

\* C17 (amended): the priority score of every region is that expression
\* evaluated in double arithmetic, signal by signal in the order given, which
\* is the exact value up to one rounding step; confidence 0.2, handwritten,
\* text "ab" scores 0.8999999999999999.
C17_ScoreEqualsFormulaInDoubles ==
    verification_regions.called =>
        \A k \in 1..Len(v_regions) :
            /\ verification_regions.scores[k] = DoubleScore(v_regions[k])
            /\ Abs(verification_regions.scores[k] - ExactScore(v_regions[k])) <= 1
            /\ IsExampleRegion(v_regions[k]) => verification_regions.scores[k] = 8999

\* A call whose regions include the example region, a region whose signals
\* add up to more than 1.0 and a region without any signal.
C17_Witness ==
    /\ verification_regions.called
    /\ \E i, j, k \in 1..Len(v_regions) :
          /\ IsExampleRegion(v_regions[i])
          /\ LowConfidence(v_regions[j]) /\ Handwritten(v_regions[j])
          /\ KnownBad(v_regions[j]) /\ ShortText(v_regions[j])
          /\ verification_regions.scores[j] = 10000
          /\ verification_regions.scores[k] = 0

\* The 0-based ids of the regions in the returned list.
ReturnedIds ==
    {verification_regions.candidates[n].region_id :
        n \in 1..Len(verification_regions.candidates)}

\* C18: get_regions_for_verification returns at most 10 candidates, each
\* with a score above 0.3, in non-increasing score order, and no region left
\* out has a score above that of a returned candidate.
C18_TopCandidates ==
    verification_regions.called =>
        LET cands == verification_regions.candidates
        IN  /\ Len(cands) <= 10
            /\ \A n \in 1..Len(cands) :
                   /\ cands[n].priority_score > 3000
                   /\ cands[n].region_id + 1 \in 1..Len(v_regions)
                   /\ cands[n].priority_score =
                          verification_regions.scores[cands[n].region_id + 1]
                   /\ cands[n].text = v_regions[cands[n].region_id + 1].text
            /\ \A n, m \in 1..Len(cands) :
                   n < m => /\ cands[n].priority_score >= cands[m].priority_score
                            /\ cands[n].region_id # cands[m].region_id
            /\ \A k \in 1..Len(v_regions) :
                   (k - 1) \notin ReturnedIds =>
                       \A n \in 1..Len(cands) :
                           verification_regions.scores[k] <= cands[n].priority_score

\* A call with more than 10 qualifying regions of different scores: 10 are
\* returned and a qualifying region is left out.
C18_Witness ==
    /\ verification_regions.called
    /\ Len(verification_regions.candidates) = 10
    /\ \E k \in 1..Len(v_regions) :
          /\ (k - 1) \notin ReturnedIds
          /\ verification_regions.scores[k] > 3000
    /\ \E n, m \in 1..Len(verification_regions.candidates) :
          verification_regions.candidates[n].priority_score
              > verification_regions.candidates[m].priority_score

DifferOnlyInConfidence(r1, r2) ==
    /\ r1.text = r2.text
    /\ r1.region_type = r2.region_type
    /\ r1.bbox = r2.bbox
    /\ r1.confidence # r2.confidence

\* C19: of two regions that differ only in confidence, one below the
\* threshold 0.5 and the other at or above it, the one with the higher
\* confidence has a score no greater than the other's.
C19_ScoreMonotonicInConfidence ==
    verification_regions.called =>
        \A i, j \in 1..Len(v_regions) :
            (/\ DifferOnlyInConfidence(v_regions[i], v_regions[j])
             /\ v_regions[i].confidence < 50
             /\ v_regions[j].confidence >= 50)
            => verification_regions.scores[j] <= verification_regions.scores[i]

\* A call with two such regions, the second exactly at the threshold.
C19_Witness ==
    /\ verification_regions.called
    /\ \E i, j \in 1..Len(v_regions) :
          /\ DifferOnlyInConfidence(v_regions[i], v_regions[j])
          /\ v_regions[i].confidence < 50
          /\ v_regions[j].confidence = 50
          /\ verification_regions.scores[j] < verification_regions.scores[i]

\* C20: every region selected for verification yields a candidate carrying a
\* non-empty image, the crop or a placeholder when the image is missing or
\* the box lies outside it; a failing crop removes no candidate.
C20_CandidateHasImage ==
    verification_regions.called =>
        /\ \A k \in 1..Len(v_regions) :
               (verification_regions.scores[k] > 3000 /\ Len(v_regions) <= 10)
                   => (k - 1) \in ReturnedIds
        /\ \A n \in 1..Len(verification_regions.candidates) :
               ~verification_regions.candidates[n].cropped_image_b64.empty

(***************************************************************************)
(* detect_sections of document_section_detector.py.  A title pattern is    *)
(* the set of the texts it matches when the words of a page are separated  *)
(* by one space and no digit follows: lembar\s+disposisi is                *)
(* "lembar disposisi", lampiran\s*\d* matches wherever "lampiran" occurs,   *)
(* surat\s+(pendukung|referensi) is "surat pendukung" or "surat referensi".*)
(***************************************************************************)
PatternsDisposisi ==
    [section_type |-> "disposisi",
     keywords |->
       <<<<"d", "i", "s", "p", "o", "s", "i", "s", "i">>,
         <<"d", "i", "t", "e", "r", "u", "s", "k", "a", "n">>,
         <<"k", "e", "p", "a", "d", "a">>,
         <<"u", "n", "t", "u", "k">>,
         <<"t", "i", "n", "d", "a", "k", " ", "l", "a", "n", "j", "u", "t">>>>,
     title_patterns |->
       <<{<<"l", "e", "m", "b", "a", "r", " ", "d", "i", "s", "p", "o", "s", "i", "s", "i">>},
         {<<"d", "i", "s", "p", "o", "s", "i", "s", "i">>},
         {<<"t", "i", "n", "d", "a", "k", " ", "l", "a", "n", "j", "u", "t">>}>>,
     structure_indicators |->
       <<<<"k", "e", "p", "a", "d", "a", ":">>,
         <<"d", "a", "r", "i", ":">>,
         <<"p", "e", "r", "i", "h", "a", "l", ":">>,
         <<"t", "a", "n", "g", "g", "a", "l", ":">>>>]

PatternsNotaDinas ==
    [section_type |-> "nota_dinas",
     keywords |->
       <<<<"n", "o", "t", "a", " ", "d", "i", "n", "a", "s">>,
         <<"m", "e", "m", "o", "r", "a", "n", "d", "u", "m">>,
         <<"k", "e", "p", "a", "d", "a">>,
         <<"d", "a", "r", "i">>,
         <<"p", "e", "r", "i", "h", "a", "l">>>>,
     title_patterns |->
       <<{<<"n", "o", "t", "a", " ", "d", "i", "n", "a", "s">>},
         {<<"m", "e", "m", "o", "r", "a", "n", "d", "u", "m">>}>>,
     structure_indicators |->
       <<<<"k", "e", "p", "a", "d", "a", ":">>,
         <<"d", "a", "r", "i", ":">>,
         <<"p", "e", "r", "i", "h", "a", "l", ":">>,
         <<"n", "o", "m", "o", "r", ":">>>>]

PatternsLampiranText ==
    [section_type |-> "lampiran_text",
     keywords |->
       <<<<"l", "a", "m", "p", "i", "r", "a", "n">>,
         <<"a", "t", "t", "a", "c", "h", "m", "e", "n", "t">>,
         <<"t", "e", "r", "l", "a", "m", "p", "i", "r">>,
         <<"s", "e", "b", "a", "g", "a", "i", " ", "b", "e", "r", "i", "k", "u", "t">>>>,
     title_patterns |->
       <<{<<"l", "a", "m", "p", "i", "r", "a", "n">>},
         {<<"a", "t", "t", "a", "c", "h", "m", "e", "n", "t">>}>>,
     structure_indicators |->
       <<<<"l", "a", "m", "p", "i", "r", "a", "n", ":">>,
         <<"t", "e", "r", "l", "a", "m", "p", "i", "r", ":">>,
         <<"s", "e", "b", "a", "g", "a", "i", " ", "b", "e", "r", "i", "k", "u", "t", ":">>>>]

PatternsLampiranTabel ==
    [section_type |-> "lampiran_tabel",
     keywords |->
       <<<<"t", "a", "b", "e", "l">>,
         <<"d", "a", "f", "t", "a", "r">>,
         <<"d", "a", "t", "a">>,
         <<"s", "t", "a", "t", "i", "s", "t", "i", "k">>,
         <<"l", "a", "p", "o", "r", "a", "n">>>>,
     title_patterns |->
       <<{<<"t", "a", "b", "e", "l">>},
         {<<"d", "a", "f", "t", "a", "r">>},
         {<<"d", "a", "t", "a">>}>>,
     structure_indicators |->
       <<<<"n", "o", ".">>,
         <<"n", "a", "m", "a">>,
         <<"j", "u", "m", "l", "a", "h">>,
         <<"t", "o", "t", "a", "l">>,
         <<"|">>,
         <<"k", "o", "l", "o", "m">>>>]

PatternsSuratPendukung ==
    [section_type |-> "surat_pendukung",
     keywords |->
       <<<<"s", "u", "r", "a", "t">>,
         <<"r", "e", "f", "e", "r", "e", "n", "s", "i">>,
         <<"p", "e", "n", "d", "u", "k", "u", "n", "g">>,
         <<"d", "e", "n", "g", "a", "n", " ", "h", "o", "r", "m", "a", "t">>>>,
     title_patterns |->
       <<{<<"s", "u", "r", "a", "t", " ", "p", "e", "n", "d", "u", "k", "u", "n", "g">>, <<"s", "u", "r", "a", "t", " ", "r", "e", "f", "e", "r", "e", "n", "s", "i">>},
         {<<"r", "e", "f", "e", "r", "e", "n", "s", "i">>}>>,
     structure_indicators |->
       <<<<"d", "e", "n", "g", "a", "n", " ", "h", "o", "r", "m", "a", "t">>,
         <<"d", "e", "m", "i", "k", "i", "a", "n">>,
         <<"h", "o", "r", "m", "a", "t", " ", "k", "a", "m", "i">>>>]

\* self.section_patterns, in the order of the dict.
SectionPatterns ==
    <<PatternsDisposisi, PatternsNotaDinas, PatternsLampiranText, PatternsLampiranTabel,
      PatternsSuratPendukung>>

\* sum(1 for w in words if w in content)
CountContained(content, words) ==
    Cardinality({k \in 1..Len(words) : Contains(content, words[k])})

\* sum(1 for pattern in title_patterns if re.search(pattern, content))
CountTitleMatches(content, title_patterns) ==
    Cardinality({k \in 1..Len(title_patterns) :
                    \E alt \in title_patterns[k] : Contains(content, alt)})

\* The denominator the confidence of a section type is kept over: the score
\* 0.4 * k / nk + 0.3 * t / nt + 0.3 * s / ns is the numerator below over
\* 10 * nk * nt * ns.
ConfidenceDenominator(patterns) ==
    10 * Len(patterns.keywords) * Len(patterns.title_patterns)
       * Len(patterns.structure_indicators)

\* _calculate_section_confidence, as the numerator over ConfidenceDenominator;
\* the score never exceeds 1, so min(score, 1.0) is the score.
CalculateSectionConfidence(content, patterns) ==
    LET nk == Len(patterns.keywords)
        nt == Len(patterns.title_patterns)
        ns == Len(patterns.structure_indicators)
    IN  4 * CountContained(content, patterns.keywords) * nt * ns
        + 3 * CountTitleMatches(content, patterns.title_patterns) * nk * ns
        + 3 * CountContained(content, patterns.structure_indicators) * nk * nt

\* confidence > 0.3
AboveDetectionThreshold(confidence, patterns) ==
    10 * confidence > 3 * ConfidenceDenominator(patterns)

\* _extract_matching_keywords
ExtractMatchingKeywords(content, keywords) ==
    SelectSeq(keywords, LAMBDA kw : Contains(content, kw))

\* _analyze_page_content: a DocumentSection for every section type whose
\* confidence on the page is above the threshold, in the order of the
\* types. The fields title and patterns, which the merge does not touch,
\* are left out.
AnalyzePageContent(content, page_idx) ==
    LET content_lower == LowerStr(content)
        detected == SelectSeq(SectionPatterns,
                        LAMBDA patterns :
                            AboveDetectionThreshold(
                                CalculateSectionConfidence(content_lower, patterns),
                                patterns))
    IN  [k \in 1..Len(detected) |->
            [section_type |-> detected[k].section_type,
             page_start   |-> page_idx,
             page_end     |-> page_idx,
             content      |-> content,
             confidence   |-> CalculateSectionConfidence(content_lower, detected[k]),
             keywords     |-> ExtractMatchingKeywords(content_lower, detected[k].keywords)]]

\* The loop of _merge_adjacent_sections from element k on: next_section is
\* compared with current_section, the element the loop is holding.
RECURSIVE MergeFrom(_, _, _, _)
MergeFrom(sections, k, current_section, merged) ==
    IF k > Len(sections) THEN Append(merged, current_section)
    ELSE LET next_section == sections[k]
         IN  IF /\ current_section.section_type = next_section.section_type
                /\ next_section.page_start = current_section.page_end + 1
             THEN MergeFrom(sections, k + 1,
                      [current_section EXCEPT
                          !.page_end = next_section.page_end,
                          !.content = @ \o <<"\n", "\n">> \o next_section.content,
                          !.confidence = Max2(@, next_section.confidence)],
                      merged)
             ELSE MergeFrom(sections, k + 1, next_section, Append(merged, current_section))

\* _merge_adjacent_sections
MergeAdjacentSections(sections) ==
    IF sections = <<>> THEN sections
    ELSE MergeFrom(sections, 2, sections[1], <<>>)

\* The sections of the pages from page k on, page by page.
RECURSIVE SectionsOfPagesFrom(_, _)
SectionsOfPagesFrom(pages, k) ==
    IF k > Len(pages) THEN <<>>
    ELSE AnalyzePageContent(pages[k], k - 1) \o SectionsOfPagesFrom(pages, k + 1)

\* detect_sections(pages_content)
DetectSectionsOf(pages) == MergeAdjacentSections(SectionsOfPagesFrom(pages, 1))

\* Page texts: a disposition sheet (which also scores as a memorandum), a
\* memorandum, an attachment page and a page without any section.
PageDisposisi == <<"d", "i", "s", "p", "o", "s", "i", "s", "i", " ", "k", "e", "p", "a", "d", "a", ":", " ", "d", "a", "r", "i", ":", " ", "p", "e", "r", "i", "h", "a", "l", ":">>

PageMemo == <<"M", "e", "m", "o", "r", "a", "n", "d", "u", "m", " ", "n", "o", "m", "o", "r", ":", " ", "d", "a", "r", "i", ":">>

PageLampiran == <<"l", "a", "m", "p", "i", "r", "a", "n", " ", "a", "t", "t", "a", "c", "h", "m", "e", "n", "t">>

PagePlain == <<"h", "a", "l", "a", "m", "a", "n", " ", "2">>

PageTexts == {PageDisposisi, PageMemo, PageLampiran, PagePlain}

MaxPages == 3

InitSections ==
    /\ pages_content \in SeqsUpTo(PageTexts, MaxPages)
    /\ merged_sections = <<>>
    /\ sec_pc = "pages"
    /\ MergeIdle
    /\ StoreIdle
    /\ ReloadIdle
    /\ ProcessorFresh
    /\ VerifyIdle
    /\ RaceIdle
    /\ ApiIdle

\* detect_sections(pages_content)
DetectSections ==
    /\ sec_pc = "pages"
    /\ merged_sections' = DetectSectionsOf(pages_content)
    /\ sec_pc' = "detected"
    /\ UNCHANGED pages_content
    /\ UNCHANGED <<mergeVars, storeVars, reloadVars, procVars, verifyVars, raceVars, apiVars>>

NextSections == DetectSections

SpecSections == InitSections /\ [][NextSections]_vars

\* C28: in the result of detect_sections no two sections of the same type
\* cover consecutive pages, one ending at page p and another starting at
\* page p + 1, also when other section types are detected on the same
\* pages.
C28_NoAdjacentSectionsOfOneType ==
    sec_pc = "detected" =>
        \A a, b \in 1..Len(merged_sections) :
            merged_sections[a].section_type = merged_sections[b].section_type
                => merged_sections[b].page_start # merged_sections[a].page_end + 1

(***************************************************************************)
(* Two threads in process_user_correction on one pattern file and one      *)
(* PatternManager.  A thread's steps are: read the file into its DataFrame *)
(* and add its patterns (read_csv and the loop), write the DataFrame over   *)
(* the file (to_csv), clear the rule list, load the file into the list.    *)
(***************************************************************************)

Writers == {1, 2}

\* The patterns thread w generated from its correction.
GeneratedBy(w) == GeneratePatternsFromCorrection(w_corr[w][1], w_corr[w][2])

InitRace ==
    /\ csv_rows \in {TplMissing, TplGood}
    /\ ocr_patterns = LoadOcrPatterns(csv_rows, <<>>)
    /\ aoc = NoCall
    /\ pp = NoCall
    /\ last_op = [op |-> "init"]
    /\ n_appends = 0
    /\ w_corr \in {c \in [Writers -> Corrections] : c[1] # c[2]}
    /\ w_pc = [w \in Writers |-> "start"]
    /\ w_df = [w \in Writers |-> <<>>]
    /\ MergeIdle
    /\ ReloadIdle
    /\ ProcessorFresh
    /\ VerifyIdle
    /\ SectionsIdle
    /\ ApiIdle

\* process_user_correction up to the end of the loop of _update_pattern_csv:
\* without patterns the call returns; otherwise the file is read and the
\* patterns are added to the thread's DataFrame.
UpdateCsvRead(w) ==
    /\ w_pc[w] = "start"
    /\ IF GeneratedBy(w) = <<>>
       THEN /\ w_pc' = [w_pc EXCEPT ![w] = "done"]
            /\ UNCHANGED w_df
       ELSE /\ w_df' = [w_df EXCEPT ![w] = UpdatePatternCsv(csv_rows, GeneratedBy(w))]
            /\ w_pc' = [w_pc EXCEPT ![w] = "read"]
    /\ UNCHANGED <<w_corr, storeVars>>
    /\ UNCHANGED <<mergeVars, reloadVars, procVars, verifyVars, sectionVars, apiVars>>

\* _update_pattern_csv: df.to_csv(csv_path)
UpdateCsvWrite(w) ==
    /\ w_pc[w] = "read"
    /\ csv_rows' = w_df[w]
    /\ w_pc' = [w_pc EXCEPT ![w] = "written"]
    /\ UNCHANGED <<w_corr, w_df, ocr_patterns, aoc, pp, last_op, n_appends>>
    /\ UNCHANGED <<mergeVars, reloadVars, procVars, verifyVars, sectionVars, apiVars>>

\* reload_patterns: self.ocr_patterns.clear()
WriterReloadClear(w) ==
    /\ w_pc[w] = "written"
    /\ ocr_patterns' = <<>>
    /\ w_pc' = [w_pc EXCEPT ![w] = "cleared"]
    /\ UNCHANGED <<w_corr, w_df, csv_rows, aoc, pp, last_op, n_appends>>
    /\ UNCHANGED <<mergeVars, reloadVars, procVars, verifyVars, sectionVars, apiVars>>

\* reload_patterns: _load_ocr_patterns appends the rows of the file to the
\* list as it is and sorts it; process_user_correction returns.
WriterReloadLoad(w) ==
    /\ w_pc[w] = "cleared"
    /\ ocr_patterns' = LoadOcrPatterns(csv_rows, ocr_patterns)
    /\ w_pc' = [w_pc EXCEPT ![w] = "done"]
    /\ UNCHANGED <<w_corr, w_df, csv_rows, aoc, pp, last_op, n_appends>>
    /\ UNCHANGED <<mergeVars, reloadVars, procVars, verifyVars, sectionVars, apiVars>>

NextRace ==
    \E w \in Writers :
        \/ UpdateCsvRead(w)
        \/ UpdateCsvWrite(w)
        \/ WriterReloadClear(w)
        \/ WriterReloadLoad(w)

SpecRace == InitRace /\ [][NextRace]_vars

\* The file and the store hold a rule with the pair of the pattern.
Persisted(pattern) ==
    /\ \E k \in 1..Len(csv_rows) :
           /\ csv_rows[k].Wrong_Text = pattern.Wrong_Text
           /\ csv_rows[k].Correct_Text = pattern.Correct_Text
    /\ \E k \in 1..Len(ocr_patterns) :
           /\ ocr_patterns[k].wrong_text = pattern.Wrong_Text
           /\ ocr_patterns[k].correct_text = pattern.Correct_Text

\* C29: when two user corrections with different (original, corrected)
\* pairs have been processed concurrently and both process_user_correction
\* calls have returned, the file holds the rules of both corrections, with
\* pairwise distinct ids, and the in-memory store holds both.
C29_BothCorrectionsPersisted ==
    (\A w \in Writers : w_pc[w] = "done") =>
        /\ \A w \in Writers :
               \A k \in 1..Len(GeneratedBy(w)) : Persisted(GeneratedBy(w)[k])
        /\ \A i, j \in 1..Len(csv_rows) :
               i # j => csv_rows[i].Pattern_ID # csv_rows[j].Pattern_ID

(***************************************************************************)
(* The task table of api_server.py.  A task id is the index of the task in  *)
(* processing_tasks; None is written "None".  process_document_background  *)
(* is taken in two steps, before and after processor.process_document.     *)
(***************************************************************************)

\* allowed_types of POST /process-document/
AllowedTypes == {"application/pdf", "image/jpeg", "image/png", "image/tiff"}

\* Content types of the uploads.
ContentTypes == {"application/pdf", "image/png", "text/plain"}

MaxTasks == 2

\* What processor.process_document does for the task: returns a result with
\* success = True, returns one with success = False and an error message,
\* or raises an exception e (str(e) may be the empty string).
Outcomes ==
    {[kind |-> "success", result |-> "result", message |-> "None"],
     [kind |-> "failure", result |-> "None", message |-> "Unsupported file type"],
     [kind |-> "failure", result |-> "None", message |-> "exception"],
     [kind |-> "raise", result |-> "None", message |-> ""]}

\* The record POST /process-document/ stores for a new task.
QueuedTask(content_type) ==
    [status |-> "queued", content_type |-> content_type, result |-> "None",
     error |-> "None"]

\* A finished task that keeps the result of the processor whatever the
\* outcome and also stores the message.
FinishedTaskWithResultAndError(task, outcome) ==
    [task EXCEPT !.status = IF outcome.kind = "success" THEN "completed" ELSE "failed",
                 !.result = "result",
                 !.error  = outcome.message]

\* The task record when process_document_background ends.
FinishedTask(task, outcome) ==
    IF outcome.kind = "success"
    THEN [task EXCEPT !.status = "completed", !.result = outcome.result]
    ELSE [task EXCEPT !.status = "failed", !.error = outcome.message]

InitApi ==
    /\ processing_tasks = <<>>
    /\ api_response = NoCall
    /\ MergeIdle
    /\ StoreIdle
    /\ ReloadIdle
    /\ ProcessorFresh
    /\ VerifyIdle
    /\ SectionsIdle
    /\ RaceIdle

\* POST /process-document/: a file of a type that is not allowed raises
\* HTTPException(400) inside the try block, which the handler's own except
\* clause turns into a 500; otherwise the task is stored as queued and the
\* background task is created.
PostProcessDocument(content_type) ==
    /\ Len(processing_tasks) < MaxTasks
    /\ IF content_type \notin AllowedTypes
       THEN /\ api_response' = [called |-> TRUE, endpoint |-> "process-document",
                                task_id |-> 0, status_code |-> 500, body |-> "None"]
            /\ UNCHANGED processing_tasks
       ELSE /\ processing_tasks' = Append(processing_tasks, QueuedTask(content_type))
            /\ api_response' = [called |-> TRUE, endpoint |-> "process-document",
                                task_id |-> Len(processing_tasks) + 1,
                                status_code |-> 200, body |-> "queued"]
    /\ UNCHANGED <<mergeVars, storeVars, reloadVars, procVars, verifyVars, sectionVars,
                   raceVars>>

\* process_document_background: processing_tasks[task_id]["status"] = "processing"
BackgroundStart(task_id) ==
    /\ task_id \in 1..Len(processing_tasks)
    /\ processing_tasks[task_id].status = "queued"
    /\ processing_tasks' = [processing_tasks EXCEPT ![task_id].status = "processing"]
    /\ UNCHANGED api_response
    /\ UNCHANGED <<mergeVars, storeVars, reloadVars, procVars, verifyVars, sectionVars,
                   raceVars>>

\* process_document_background after processor.process_document
BackgroundFinish(task_id, outcome) ==
    /\ task_id \in 1..Len(processing_tasks)
    /\ processing_tasks[task_id].status = "processing"
    /\ processing_tasks' =
           [processing_tasks EXCEPT ![task_id] = FinishedTask(@, outcome)]
    /\ UNCHANGED api_response
    /\ UNCHANGED <<mergeVars, storeVars, reloadVars, procVars, verifyVars, sectionVars,
                   raceVars>>

\* GET /tasks/{task_id}
GetTaskStatus(task_id) ==
    /\ api_response' =
           IF task_id \notin 1..Len(processing_tasks)
           THEN [called |-> TRUE, endpoint |-> "tasks", task_id |-> task_id,
                 status_code |-> 500, body |-> "None"]
           ELSE LET task == processing_tasks[task_id]
                IN  [called |-> TRUE, endpoint |-> "tasks", task_id |-> task_id,
                     status_code |-> 200,
                     body |-> IF task.status = "completed" THEN task.result ELSE "None"]
    /\ UNCHANGED processing_tasks
    /\ UNCHANGED <<mergeVars, storeVars, reloadVars, procVars, verifyVars, sectionVars,
                   raceVars>>

\* GET /results/{task_id}: the HTTPException for an unknown task (404) or a
\* task that is not completed (400) is raised inside the try block and
\* answered as a 500 by the except clause.
GetProcessingResult(task_id) ==
    /\ api_response' =
           IF task_id \notin 1..Len(processing_tasks)
           THEN [called |-> TRUE, endpoint |-> "results", task_id |-> task_id,
                 status_code |-> 500, body |-> "None"]
           ELSE IF processing_tasks[task_id].status # "completed"
           THEN [called |-> TRUE, endpoint |-> "results", task_id |-> task_id,
                 status_code |-> 500, body |-> "None"]
           ELSE [called |-> TRUE, endpoint |-> "results", task_id |-> task_id,
                 status_code |-> 200, body |-> processing_tasks[task_id].result]
    /\ UNCHANGED processing_tasks
    /\ UNCHANGED <<mergeVars, storeVars, reloadVars, procVars, verifyVars, sectionVars,
                   raceVars>>

NextApi ==
    \/ \E content_type \in ContentTypes : PostProcessDocument(content_type)
    \/ \E task_id \in 1..MaxTasks : BackgroundStart(task_id)
    \/ \E task_id \in 1..MaxTasks : \E outcome \in Outcomes :
           BackgroundFinish(task_id, outcome)
    \/ \E task_id \in 1..(MaxTasks + 1) : GetTaskStatus(task_id)
    \/ \E task_id \in 1..(MaxTasks + 1) : GetProcessingResult(task_id)

SpecApi == InitApi /\ [][NextApi]_vars

\* What is stored for the tasks: a result only with the status completed,
\* an error only with the status failed; a 200 of /results/{task_id} is the
\* result of a task whose status is completed.
StoredFieldsMatchStatus ==
    /\ \A t \in 1..Len(processing_tasks) :
           /\ processing_tasks[t].status \in {"queued", "processing", "completed", "failed"}
           /\ processing_tasks[t].result # "None" => processing_tasks[t].status = "completed"
           /\ processing_tasks[t].error # "None" => processing_tasks[t].status = "failed"
    /\ (/\ api_response.called
        /\ api_response.endpoint = "results"
        /\ api_response.status_code = 200) =>
           /\ api_response.task_id \in 1..Len(processing_tasks)
           /\ processing_tasks[api_response.task_id].status = "completed"
           /\ api_response.body = processing_tasks[api_response.task_id].result
           /\ api_response.body # "None"

\* One step of the task table: tasks stay, a new task is queued, and a
\* status changes only from queued to processing and from processing to
\* completed or failed.
StatusMovesForward ==
    /\ Len(processing_tasks') >= Len(processing_tasks)
    /\ \A t \in 1..Len(processing_tasks') :
           IF t > Len(processing_tasks)
           THEN processing_tasks'[t].status = "queued"
           ELSE \/ processing_tasks'[t].status = processing_tasks[t].status
                \/ /\ processing_tasks[t].status = "queued"
                   /\ processing_tasks'[t].status = "processing"
                \/ /\ processing_tasks[t].status = "processing"
                   /\ processing_tasks'[t].status \in {"completed", "failed"}

\* C30: a task's status only moves queued -> processing -> completed or
\* queued -> processing -> failed, completed and failed being terminal; the
\* stored result is non-null only when the status is completed and the
\* stored error non-null only when it is failed; /results/{task_id} returns
\* a result only for a task whose status is completed.
C30_TaskLifecycle == []StoredFieldsMatchStatus /\ [][StatusMovesForward]_vars

\* One task completed and served by /results/{task_id}, another failed with
\* its error stored.
C30_Witness ==
    /\ Len(processing_tasks) = 2
    /\ \E t, u \in 1..2 :
          /\ processing_tasks[t].status = "completed"
          /\ processing_tasks[t].result # "None"
          /\ processing_tasks[u].status = "failed"
          /\ processing_tasks[u].error # "None"
          /\ api_response.called
          /\ api_response.endpoint = "results"
          /\ api_response.task_id = t
          /\ api_response.status_code = 200

====
